---- MODULE Spec2Model ----
(***************************************************************************)
(* A model of the package/endpoint loading subsystem of CoLRev             *)
(* (colrev/env/package_manager.py): the endpoint index built from the      *)
(* packaged manifest, the settings loader DefaultSettings.load_settings,   *)
(* PackageManager.load_packages and the other operations of the            *)
(* PackageManager (discover_packages, load_package_endpoint,               *)
(* get_package_details, update_package_list).                              *)
(*                                                                         *)
(* Strings that the code inspects character by character (identifiers)     *)
(* are sequences of one-character strings; dicts are either functions      *)
(* (when only the key set matters) or sequences of entries (when the       *)
(* insertion order of a Python dict matters).  An exception is a record    *)
(* [type, arg]; NoExc stands for normal completion.                        *)
(***************************************************************************)
EXTENDS Integers, Sequences, FiniteSets, TLC

VARIABLES
    verbose,          \* PackageManager.verbose
    init_exc,         \* the exception PackageManager.__init__ raised, or NoExc
    packages,         \* PackageManager.packages: type -> dict of entries
    project_dir,      \* the <identifier>.py files of the working directory
    call,             \* the arguments of the load_packages call
    result,           \* the outcome of the load_packages call
    settings_call,    \* the arguments of the load_settings call
    settings_result,  \* the outcome of the load_settings call
    package_endpoints_json_file,  \* the content of template/package_endpoints.json
    last,             \* the last operation on the PackageManager and its outcome
    caller_selected_packages,  \* the list the caller passed to load_packages, as it is now
    review_manager,   \* the ReviewManager of an operation: its settings and flags
    records_bib,      \* the records of data/records.bib, in file order
    file_system,      \* the files of the project directory
    events            \* what the last operation called, in call order

\* the state of the package manager and of its callers
loader_vars == <<verbose, init_exc, packages, project_dir, call, result,
                 settings_call, settings_result,
                 package_endpoints_json_file, caller_selected_packages>>

\* the state of the project that the operations work on
project_vars == <<review_manager, records_bib, file_system, events>>

vars == <<loader_vars, last, project_vars>>

(***************************************************************************)
(* Bounds of the model                                                     *)
(***************************************************************************)
\* the longest selected_packages list passed to load_packages
MaxSelected == 2

\* the longest list of packages in template/packages.json
MaxScanned == 2

(***************************************************************************)
(* Exceptions                                                              *)
(***************************************************************************)
Exc(type, arg) == [type |-> type, arg |-> arg]

NoExc == Exc("none", {})

(***************************************************************************)
(* Strings                                                                 *)
(***************************************************************************)
\* str.lower() on one character of the modelled alphabet
LowerChar(c) ==
    CASE c = "A" -> "a"
      [] c = "B" -> "b"
      [] c = "G" -> "g"
      [] OTHER -> c

\* a variant that leaves the case as it is
LowerNot(s) == s

\* str.lower()
Lower(s) == [i \in DOMAIN s |-> LowerChar(s[i])]

\* " " in s
HasSpace(s) == \E i \in DOMAIN s : s[i] = " "

\* a variant that takes every str for lowercase
IsLowerAny(s) == TRUE

\* str.islower(): at least one cased character and no uppercase one
IsLower(s) ==
    /\ \E i \in DOMAIN s : s[i] \notin {".", " "}
    /\ \A i \in DOMAIN s : LowerChar(s[i]) = s[i]

\* s.split(".")[0]
RECURSIVE LeadingSegment(_)
LeadingSegment(s) ==
    IF s = <<>> \/ Head(s) = "." THEN <<>>
    ELSE <<Head(s)>> \o LeadingSegment(Tail(s))

\* the characters of the model in the order of their code points
Alphabet ==
    << " ", ".", "A", "B", "G", "a", "b", "d", "e", "g", "i", "k", "n", "p",
       "q", "s", "t", "u", "v", "w", "x", "y", "z" >>

\* ord(c)
Ord(c) == CHOOSE i \in DOMAIN Alphabet : Alphabet[i] = c

\* s < t for two str: the first character that differs decides, and a
\* proper prefix is smaller
RECURSIVE StrLess(_, _)
StrLess(s, t) ==
    IF t = <<>> THEN FALSE
    ELSE IF s = <<>> THEN TRUE
    ELSE IF Head(s) = Head(t) THEN StrLess(Tail(s), Tail(t))
    ELSE Ord(Head(s)) < Ord(Head(t))

(***************************************************************************)
(* Dicts                                                                   *)
(***************************************************************************)
\* A Python dict whose order matters (self.packages[package_type],
\* packages_dict) keeps insertion order: a sequence of entries, one per
\* key, each with its key in the field id
Keys(d) == {d[i].id : i \in DOMAIN d}

Index(d, id) == CHOOSE i \in DOMAIN d : d[i].id = id

\* a variant that adds an entry whether its key is there or not
DictAppend(d, entry) == Append(d, entry)

\* d[id] = entry: a new key goes last, an old one keeps its place
DictPut(d, entry) ==
    IF entry.id \in Keys(d)
    THEN [d EXCEPT ![Index(d, entry.id)] = entry]
    ELSE Append(d, entry)

\* del d[id], d.pop(id, None)
DictDel(d, id) ==
    IF id \in Keys(d)
    THEN LET i == Index(d, id) IN
         SubSeq(d, 1, i - 1) \o SubSeq(d, i + 1, Len(d))
    ELSE d

\* d[id]
Get(d, id) == d[Index(d, id)]

(***************************************************************************)
(* Settings: the raw configuration dict and the settings dataclasses       *)
(***************************************************************************)
\* A value of a raw dict: its Python type and its text
Val(t, v) == [t |-> t, v |-> v]

\* the text of the non-string values of the model
Blank == <<>>

\* dataclasses.fields(cls) of the settings classes, in declaration order.
\* type: the Python types of the annotation; optional: typing.Optional.
DefaultSettings ==
    << [name |-> "endpoint", type |-> {"str"}, optional |-> FALSE] >>

\* a settings class of an extension package, derived from DefaultSettings
ExtensionSettings ==
    DefaultSettings \o
    << [name |-> "paper_path", type |-> {"Path"}, optional |-> FALSE],
       [name |-> "comment", type |-> {"str", "NoneType"}, optional |-> TRUE] >>

DefaultSourceSettings ==
    << [name |-> "endpoint", type |-> {"str"}, optional |-> FALSE],
       [name |-> "filename", type |-> {"Path"}, optional |-> FALSE],
       [name |-> "search_type", type |-> {"SearchType"}, optional |-> FALSE],
       [name |-> "search_parameters", type |-> {"dict"}, optional |-> FALSE],
       [name |-> "comment", type |-> {"str", "NoneType"}, optional |-> TRUE] >>

SettingsClasses == {"DefaultSettings", "ExtensionSettings", "DefaultSourceSettings"}

Fields(cls) ==
    CASE cls = "DefaultSettings" -> DefaultSettings
      [] cls = "ExtensionSettings" -> ExtensionSettings
      [] cls = "DefaultSourceSettings" -> DefaultSourceSettings

FieldNames(cls) == {Fields(cls)[i].name : i \in DOMAIN Fields(cls)}

\* dacite's type hook {Path: Path}: the value given for a Path field is
\* passed to Path(), which turns a str into a Path
Convert(f, value, type_hooks) ==
    IF "Path" \in f.type /\ "Path" \in type_hooks /\ value.t = "str"
    THEN Val("Path", value.v)
    ELSE value

\* dacite.from_dict(data_class=cls, data=data, config=Config(type_hooks)):
\* the fields are built in declaration order; a key of data that is no
\* field is ignored; the first field that is missing without being
\* Optional raises MissingValueError and the first value of a wrong type
\* raises WrongTypeError.
RECURSIVE FromDictFrom(_, _, _, _)
FromDictFrom(fields, data, type_hooks, built) ==
    IF fields = <<>> THEN [exc |-> NoExc, settings |-> built]
    ELSE LET f == Head(fields) IN
         IF f.name \in DOMAIN data
         THEN LET value == Convert(f, data[f.name], type_hooks) IN
              IF value.t \in f.type
              THEN FromDictFrom(Tail(fields), data, type_hooks,
                       built @@ (f.name :> value))
              ELSE [exc |-> Exc("WrongTypeError", {f.name}), settings |-> <<>>]
         ELSE IF f.optional
              THEN FromDictFrom(Tail(fields), data, type_hooks,
                       built @@ (f.name :> Val("NoneType", Blank)))
              ELSE [exc |-> Exc("MissingValueError", {f.name}), settings |-> <<>>]

from_dict(cls, data, type_hooks) == FromDictFrom(Fields(cls), data, type_hooks, <<>>)

\* DefaultSettings.load_settings(cls, data=data).  The argument of the
\* ParameterError is the set of the keys joined into its value.
load_settings(cls, data) ==
    LET required_fields == FieldNames(cls)
        available_fields == DOMAIN data
        built == from_dict(cls, data, {"Path"})
        non_supported_fields == {f \in available_fields : f \notin required_fields}
    IN  IF built.exc.type # "none" THEN built
        ELSE IF non_supported_fields # {}
        THEN [exc |-> Exc("ParameterError", non_supported_fields), settings |-> <<>>]
        ELSE built

(***************************************************************************)
(* Endpoint types and their capability interfaces                          *)
(***************************************************************************)
\* the members of PackageEndpointType that the model covers
PackageEndpointType == {"prep", "search_source", "screen"}

GeneralInterface == {"ci_supported"}

PrepPackageEndpointInterface ==
    GeneralInterface \cup
    {"settings_class", "source_correction_hint", "always_apply_changes", "prepare"}

SearchSourcePackageEndpointInterface ==
    GeneralInterface \cup
    {"settings_class", "source_identifier", "search_types", "heuristic_status",
     "short_name", "docs_link", "heuristic", "add_endpoint", "run_search",
     "get_masterdata", "load", "prepare"}

ScreenPackageEndpointInterface ==
    GeneralInterface \cup {"settings_class", "run_screen"}

\* PackageManager.package_type_overview
package_type_overview ==
    [t \in PackageEndpointType |->
        CASE t = "prep" ->
                [import_name |-> PrepPackageEndpointInterface,
                 custom_class |-> "CustomPrep",
                 operation_name |-> "prep_operation"]
          [] t = "search_source" ->
                [import_name |-> SearchSourcePackageEndpointInterface,
                 custom_class |-> "CustomSearchSource",
                 operation_name |-> "source_operation"]
          [] t = "screen" ->
                [import_name |-> ScreenPackageEndpointInterface,
                 custom_class |-> "CustomScreen",
                 operation_name |-> "screen_operation"]]

\* a variant that checks the general interface only
verify_general_only(iface, candidate) ==
    IF GeneralInterface \subseteq candidate.members THEN NoExc
    ELSE Exc("Invalid", GeneralInterface \ candidate.members)

\* a variant that checks nothing
verify_nothing(iface, candidate) == NoExc

\* zope.interface.verify.verifyObject(iface, candidate): every attribute
\* and method of the interface must be there; Invalid is raised otherwise
verifyObject(iface, candidate) ==
    IF iface \subseteq candidate.members THEN NoExc
    ELSE Exc("Invalid", iface \ candidate.members)

(***************************************************************************)
(* The environment: the endpoint classes that can be imported              *)
(***************************************************************************)
\* An endpoint class: the members its instances have, its ci_supported
\* flag, how its __init__ reads the settings (load_settings as the prep
\* endpoints do, from_dict as the search sources do), and the external
\* service its __init__ starts (as TEIPDFPrep starts GROBID in docker).
EndpointClass(members, ci, init, settings_class, service) ==
    [members |-> members, ci_supported |-> ci, init |-> init,
     settings_class |-> settings_class, service |-> service]

ClassNames ==
    {"GeneralPolishPrep", "CliPrep", "PartialPrep", "PartialCliPrep",
     "UnflaggedPrep", "DockerPrep", "ServicePrep", "CustomPrep",
     "IEEEXploreSearchSource", "CustomSearchSource",
     "FilesSearchSource", "DBSearchSource", "DockerSearchSource",
     "BatchScreen", "CliScreen", "DockerScreen"}

Classes ==
    [c \in ClassNames |->
        CASE c = "GeneralPolishPrep" ->
                EndpointClass(PrepPackageEndpointInterface, TRUE,
                              "load_settings", "DefaultSettings", "none")
          [] c = "CliPrep" ->
                EndpointClass(PrepPackageEndpointInterface, FALSE,
                              "load_settings", "DefaultSettings", "none")
          [] c = "PartialPrep" ->
                EndpointClass(PrepPackageEndpointInterface \ {"prepare"}, TRUE,
                              "load_settings", "DefaultSettings", "none")
          [] c = "PartialCliPrep" ->
                EndpointClass(PrepPackageEndpointInterface \ {"prepare"}, FALSE,
                              "load_settings", "DefaultSettings", "none")
          [] c = "UnflaggedPrep" ->
                EndpointClass(PrepPackageEndpointInterface \ {"ci_supported"}, FALSE,
                              "load_settings", "DefaultSettings", "none")
          [] c = "DockerPrep" ->
                EndpointClass(PrepPackageEndpointInterface, TRUE,
                              "load_settings", "DefaultSettings", "docker")
          [] c = "ServicePrep" ->
                EndpointClass(PrepPackageEndpointInterface, TRUE,
                              "load_settings", "DefaultSettings", "crossref")
          [] c = "CustomPrep" ->
                EndpointClass(PrepPackageEndpointInterface, TRUE,
                              "load_settings", "DefaultSettings", "none")
          [] c = "IEEEXploreSearchSource" ->
                EndpointClass(SearchSourcePackageEndpointInterface
                                 \cup {"api_search_supported"}, TRUE,
                              "from_dict", "DefaultSourceSettings", "none")
          [] c = "FilesSearchSource" ->
                EndpointClass(SearchSourcePackageEndpointInterface, FALSE,
                              "from_dict", "DefaultSourceSettings", "none")
          [] c = "DBSearchSource" ->
                EndpointClass(SearchSourcePackageEndpointInterface
                                 \cup {"api_search_supported"}, TRUE,
                              "from_dict", "DefaultSourceSettings", "none")
          [] c = "DockerSearchSource" ->
                EndpointClass(SearchSourcePackageEndpointInterface
                                 \cup {"api_search_supported"}, TRUE,
                              "from_dict", "DefaultSourceSettings", "docker")
          [] c = "CustomSearchSource" ->
                EndpointClass(SearchSourcePackageEndpointInterface, TRUE,
                              "from_dict", "DefaultSourceSettings", "none")
          [] c = "BatchScreen" ->
                EndpointClass(ScreenPackageEndpointInterface, TRUE,
                              "load_settings", "DefaultSettings", "none")
          [] c = "CliScreen" ->
                EndpointClass(ScreenPackageEndpointInterface, FALSE,
                              "load_settings", "DefaultSettings", "none")
          [] c = "DockerScreen" ->
                EndpointClass(ScreenPackageEndpointInterface, TRUE,
                              "load_settings", "DefaultSettings", "docker")]

\* The settings dict as the __init__ of a class leaves it.  __init__ is
\* handed the dict itself (params["settings"]).  The endpoint classes of
\* the package read it only; a class of the project directory is any code,
\* and CustomSearchSource stands for one that puts an entry into the dict
\* before it reads it (from_dict passes over the entry).
InitWrites(cls, settings) ==
    IF cls = "CustomSearchSource"
    THEN settings @@ ("touched" :> Val("bool", Blank))
    ELSE settings

\* ref(**params): the constructor of the endpoint class that ref names.  It reads the
\* settings (general_polish.py:63, ieee.py:102-105), then starts the
\* service it needs (tei_prep.py:37-39), which raises
\* ServiceNotAvailableException(dep) when the service is not there.
Construct(ref, params) ==
    LET c == Classes[ref.cls]
        given == InitWrites(ref.cls, params.settings)
        settings == IF c.init = "load_settings"
                    THEN load_settings(c.settings_class, given)
                    ELSE from_dict(c.settings_class, given, {})
    IN  IF settings.exc.type # "none"
        THEN [exc |-> settings.exc, instance |-> <<>>, written |-> given]
        ELSE IF c.service # "none"
        THEN [exc |-> Exc("ServiceNotAvailableException", {c.service}),
              instance |-> <<>>, written |-> given]
        ELSE [exc |-> NoExc, written |-> given,
              instance |-> [kind |-> "instance", cls |-> ref.cls,
                            origin |-> ref.origin,
                            members |-> c.members,
                            ci_supported |-> c.ci_supported,
                            operation |-> params.operation_name,
                            settings |-> settings.settings]]

(***************************************************************************)
(* The environment: the modules of the Python installation                 *)
(***************************************************************************)
\* the text of a class or module name
Text(name) ==
    CASE name = "u" -> <<"u">>
      [] name = "docker" -> <<"d">>
      [] name = "RemovedPrep" -> <<"R">>
      [] OTHER -> <<"?">>

\* the modules that can be imported, each with the classes it defines
InstalledModules ==
    ( "g.prep" :> {"GeneralPolishPrep"} ) @@
    ( "n.prep" :> {"CliPrep"} ) @@
    ( "x.prep" :> {"PartialPrep"} ) @@
    ( "y.prep" :> {"PartialCliPrep"} ) @@
    ( "w.prep" :> {"UnflaggedPrep"} ) @@
    ( "k.prep" :> {"DockerPrep"} ) @@
    ( "s.prep" :> {"ServicePrep"} ) @@
    ( "i.source" :> {"IEEEXploreSearchSource"} ) @@
    ( "n.source" :> {"FilesSearchSource"} ) @@
    ( "y.source" :> {"DBSearchSource"} ) @@
    ( "k.source" :> {"DockerSearchSource"} ) @@
    ( "g.screen" :> {"BatchScreen"} ) @@
    ( "n.screen" :> {"CliScreen"} ) @@
    ( "k.screen" :> {"DockerScreen"} )

\* the modules whose import raises ModuleNotFoundError, each with the module
\* that is missing: the package of u is not installed, the package of v is
\* installed and imports a library that is not
BrokenModules ==
    ( "u.prep" :> "u" ) @@
    ( "v.prep" :> "docker" )

\* importlib.import_module(name)
import_module(name) ==
    IF name \in DOMAIN BrokenModules
    THEN [exc |-> Exc("ModuleNotFoundError", {Text(BrokenModules[name])}),
          attrs |-> {}]
    ELSE [exc |-> NoExc, attrs |-> InstalledModules[name]]

(***************************************************************************)
(* The endpoint index                                                      *)
(***************************************************************************)
\* An entry of template/package_endpoints.json.  The endpoint string
\* "module.Class" is kept as its two parts, which is what
\* rsplit(".", 1) makes of it.
Item(identifier, module, cls) ==
    [package_endpoint_identifier |-> identifier,
     endpoint |-> [module |-> module, cls |-> cls]]

\* the value of a key that a dict does not have
NoKey == "(no key)"

\* An entry of self.packages[package_type]: the identifier is its key.  It
\* has no installed key before __flag_installed_packages sets it (nothing
\* reads it before: the field starts FALSE) and no description key before
\* discover_packages sets it.
IndexEntry(id, endpoint, installed, description) ==
    [id |-> id, endpoint |-> endpoint, installed |-> installed,
     description |-> description]

\* " " in package_item["endpoint"]: no name of the model holds a space
EndpointHasSpace(endpoint) == FALSE

\* The loop body of __load_package_endpoints_index for one type: later
\* items overwrite earlier ones with the same identifier; a failing
\* assert raises AssertionError.
RECURSIVE LoadItems(_, _)
LoadItems(package_list, entries) ==
    IF package_list = <<>> THEN [exc |-> NoExc, entries |-> entries]
    ELSE LET package_item == Head(package_list)
             id == package_item.package_endpoint_identifier
         IN  IF \/ HasSpace(id)
                \/ EndpointHasSpace(package_item.endpoint)
                \/ ~IsLower(id)
             THEN [exc |-> Exc("AssertionError", {id}), entries |-> <<>>]
             ELSE LoadItems(Tail(package_list),
                      DictPut(entries,
                          IndexEntry(id, package_item.endpoint, FALSE, NoKey)))

\* the order in which the types of the manifest are read
TypeOrder == <<"prep", "search_source", "screen">>

\* PackageManager.__load_package_endpoints_index
load_package_endpoints_index(package_dict) ==
    LET loaded == [t \in PackageEndpointType |-> LoadItems(package_dict[t], <<>>)]
        failed == {i \in DOMAIN TypeOrder : loaded[TypeOrder[i]].exc.type # "none"}
    IN  IF failed # {}
        THEN [exc |-> loaded[TypeOrder[CHOOSE i \in failed :
                                 \A j \in failed : i <= j]].exc,
              packages |-> <<>>]
        ELSE [exc |-> NoExc,
              packages |-> [t \in PackageEndpointType |-> loaded[t].entries]]

\* PackageManager.load_package_endpoint
load_package_endpoint(pkgs, package_type, identifier) ==
    LET package_identifier == Lower(identifier) IN
    IF package_identifier \notin Keys(pkgs[package_type])
    THEN [exc |-> Exc("MissingDependencyError", {package_identifier}), cls |-> ""]
    ELSE LET package_str == Get(pkgs[package_type], package_identifier).endpoint
             imported_package == import_module(package_str.module)
         IN  IF imported_package.exc.type # "none"
             THEN [exc |-> imported_package.exc, cls |-> ""]
             ELSE IF package_str.cls \notin imported_package.attrs
             THEN [exc |-> Exc("AttributeError", {Text(package_str.cls)}), cls |-> ""]
             ELSE [exc |-> NoExc, cls |-> package_str.cls]

\* a variant that swallows every failure
FlagOneQuietly(pkgs, package_type, package_identifier, verbose_mode) ==
    [exc |-> NoExc,
     installed |-> load_package_endpoint(pkgs, package_type,
                                         package_identifier).exc.type = "none"]

\* The try statement of __flag_installed_packages for one entry: the
\* exception it lets through (in verbose mode, when the missing name is not
\* the leading segment of the identifier) and the installed flag it sets.
FlagOne(pkgs, package_type, package_identifier, verbose_mode) ==
    LET probe == load_package_endpoint(pkgs, package_type, package_identifier) IN
    IF probe.exc.type = "none"
    THEN [exc |-> NoExc, installed |-> TRUE]
    ELSE IF /\ \E name \in probe.exc.arg :
                   LeadingSegment(package_identifier) # name
            /\ verbose_mode
    THEN [exc |-> probe.exc, installed |-> FALSE]
    ELSE [exc |-> NoExc, installed |-> FALSE]

\* the identifiers of a package list in the order in which the dict of
\* the index holds them (the order of their first occurrence)
RECURSIVE KeyOrder(_, _)
KeyOrder(package_list, seen) ==
    IF package_list = <<>> THEN <<>>
    ELSE LET id == Head(package_list).package_endpoint_identifier IN
         IF id \in seen THEN KeyOrder(Tail(package_list), seen)
         ELSE <<id>> \o KeyOrder(Tail(package_list), seen \cup {id})

\* PackageManager.__flag_installed_packages: todo is the sequence of
\* <<type, identifier>> still to probe, in the iteration order of the dicts
RECURSIVE FlagFrom(_, _, _)
FlagFrom(pkgs, todo, verbose_mode) ==
    IF todo = <<>> THEN [exc |-> NoExc, packages |-> pkgs]
    ELSE LET t == Head(todo)[1]
             id == Head(todo)[2]
             one == FlagOne(pkgs, t, id, verbose_mode)
         IN  IF one.exc.type # "none"
             THEN [exc |-> one.exc, packages |-> <<>>]
             ELSE FlagFrom([pkgs EXCEPT ![t][Index(pkgs[t], id)].installed = one.installed],
                           Tail(todo), verbose_mode)

RECURSIVE Tagged(_, _)
Tagged(t, ids) ==
    IF ids = <<>> THEN <<>> ELSE << <<t, Head(ids)>> >> \o Tagged(t, Tail(ids))

flag_installed_packages(pkgs, package_dict, verbose_mode) ==
    FlagFrom(pkgs,
             Tagged(TypeOrder[1], KeyOrder(package_dict[TypeOrder[1]], {}))
               \o Tagged(TypeOrder[2], KeyOrder(package_dict[TypeOrder[2]], {}))
               \o Tagged(TypeOrder[3], KeyOrder(package_dict[TypeOrder[3]], {})),
             verbose_mode)

\* PackageManager.__init__: the index that the constructor leaves in
\* self.packages, or the exception that ends it
PackageManagerInit(package_dict, verbose_mode) ==
    LET index == load_package_endpoints_index(package_dict) IN
    IF index.exc.type # "none" THEN index
    ELSE flag_installed_packages(index.packages, package_dict, verbose_mode)

(***************************************************************************)
(* PackageManager.load_packages                                            *)
(***************************************************************************)
\* A reference to a class: its name and where it was found, in a module
\* of the index ("index") or in a module of the project directory
\* ("project")
ClassRef(cls, origin) == [kind |-> "class", cls |-> cls, origin |-> origin]

\* An imported module of the project directory
ModuleRef(attrs) == [kind |-> "module", attrs |-> attrs]

Entry(id, settings, has_endpoint, endpoint, custom_flag) ==
    [id |-> id, settings |-> settings, has_endpoint |-> has_endpoint,
     endpoint |-> endpoint, custom_flag |-> custom_flag]

NoEndpoint == [kind |-> "none"]

\* a variant that never looks into the project directory
is_file_never(dir, package_identifier) == FALSE

\* Path(package_identifier + ".py").is_file()
is_file(dir, package_identifier) == package_identifier \in DOMAIN dir

\* a variant that takes every registered package for installed
not_installed_unchecked(pkgs, package_type, package_identifier) == FALSE

\* not self.packages[package_type][package_identifier]["installed"]
not_installed(pkgs, package_type, package_identifier) ==
    ~Get(pkgs[package_type], package_identifier).installed

\* PackageManager.__get_packages_dict, from the selection at the head of
\* selected_packages on, selected_packages being the deep copy of line 682.
RECURSIVE GetPackagesDictFrom(_, _, _, _, _, _)
GetPackagesDictFrom(pkgs, dir, selected_packages, package_type, ignore_not_available, packages_dict) ==
    IF selected_packages = <<>>
    THEN [exc |-> NoExc, packages_dict |-> packages_dict]
    ELSE
    LET selected_package == Head(selected_packages)
        package_identifier == Lower(selected_package["endpoint"].v)
        started == DictPut(packages_dict,
                       Entry(package_identifier, selected_package, FALSE,
                             NoEndpoint, FALSE))
    IN
    IF ~is_file(dir, package_identifier)
    THEN \* 1. Load built-in packages
         IF package_identifier \notin Keys(pkgs[package_type])
         THEN [exc |-> Exc("MissingDependencyError", {package_identifier}),
               packages_dict |-> started]
         ELSE IF not_installed(pkgs, package_type, package_identifier)
         THEN [exc |-> Exc("MissingDependencyError", {package_identifier}),
               packages_dict |-> started]
         ELSE LET loaded == load_package_endpoint(pkgs, package_type,
                                                  package_identifier)
              IN  IF loaded.exc.type # "none"
                  THEN [exc |-> loaded.exc, packages_dict |-> started]
                  ELSE GetPackagesDictFrom(pkgs, dir, Tail(selected_packages),
                           package_type, ignore_not_available,
                           DictPut(started,
                               Entry(package_identifier, selected_package, TRUE,
                                     ClassRef(loaded.cls, "index"), FALSE)))
    ELSE \* 2. Load custom packages in the directory
         IF dir[package_identifier].exc.type = "ModuleNotFoundError"
         THEN IF ignore_not_available
              THEN GetPackagesDictFrom(pkgs, dir, Tail(selected_packages),
                       package_type, ignore_not_available,
                       DictDel(started, package_identifier))
              ELSE [exc |-> Exc("MissingDependencyError", {package_identifier}),
                    packages_dict |-> started]
         ELSE GetPackagesDictFrom(pkgs, dir, Tail(selected_packages),
                  package_type, ignore_not_available,
                  DictPut(started,
                      Entry(package_identifier, selected_package, TRUE,
                            ModuleRef(dir[package_identifier].attrs), TRUE)))

\* the selections of a list that have a file in the project directory or
\* are registered in the index
RECURSIVE Available(_, _, _, _)
Available(pkgs, dir, selected_packages, package_type) ==
    IF selected_packages = <<>> THEN <<>>
    ELSE LET id == Lower(Head(selected_packages)["endpoint"].v)
             rest == Available(pkgs, dir, Tail(selected_packages), package_type)
         IN  IF id \in DOMAIN dir \/ id \in Keys(pkgs[package_type])
             THEN <<Head(selected_packages)>> \o rest
             ELSE rest

\* A list of dicts as an object: whose objects the list and its dicts are,
\* and what they hold
ListObject(owner, items) == [owner |-> owner, items |-> items]

\* a variant that hands back the objects it is given
deepcopy_shared(obj) == obj

\* copy.deepcopy(obj): a new list of new dicts that hold what obj holds
deepcopy(obj) == ListObject("copy", obj.items)

\* a variant that leaves out the selections that are not registered when
\* ignore_not_available is set
get_packages_dict_dropping(pkgs, dir, selected_packages, package_type, ignore_not_available) ==
    LET copy == deepcopy(ListObject("caller", selected_packages))
        got == GetPackagesDictFrom(pkgs, dir,
                   IF ignore_not_available
                   THEN Available(pkgs, dir, copy.items, package_type)
                   ELSE copy.items,
                   package_type, ignore_not_available, <<>>)
    IN  [exc |-> got.exc, packages_dict |-> got.packages_dict,
         settings_of |-> copy.owner]

\* PackageManager.__get_packages_dict: the deep copy of line 682, then the
\* loop over the copy.  settings_of tells whose dicts the settings of
\* packages_dict are.
get_packages_dict(pkgs, dir, selected_packages, package_type, ignore_not_available) ==
    LET copy == deepcopy(ListObject("caller", selected_packages))
        got == GetPackagesDictFrom(pkgs, dir, copy.items, package_type,
                                   ignore_not_available, <<>>)
    IN  [exc |-> got.exc, packages_dict |-> got.packages_dict,
         settings_of |-> copy.owner]

\* PackageManager.__drop_broken_packages, from the i-th item of the dict
\* on.  The loop runs over packages_dict.items() and pops from
\* packages_dict inside it: after a pop the dict has changed size, and the
\* next step of the iterator raises RuntimeError ("dictionary changed size
\* during iteration"), also when the popped item was the last one.
RECURSIVE DropBrokenFrom(_, _, _, _)
DropBrokenFrom(packages_dict, i, package_type, ignore_not_available) ==
    IF i > Len(packages_dict)
    THEN [exc |-> NoExc, packages_dict |-> packages_dict]
    ELSE
    LET val == packages_dict[i]
        custom_class == package_type_overview[package_type].custom_class
    IN
    IF ~val.custom_flag
    THEN DropBrokenFrom(packages_dict, i + 1, package_type, ignore_not_available)
    ELSE IF custom_class \in val.endpoint.attrs
    THEN DropBrokenFrom(
             [packages_dict EXCEPT ![i].endpoint = ClassRef(custom_class, "project"),
                                   ![i].custom_flag = FALSE],
             i + 1, package_type, ignore_not_available)
    ELSE IF ~ignore_not_available
    THEN [exc |-> Exc("MissingDependencyError", {val.id}),
          packages_dict |-> packages_dict]
    ELSE [exc |-> Exc("RuntimeError", {val.id}),
          packages_dict |-> DictDel(packages_dict, val.id)]

drop_broken_packages(packages_dict, package_type, ignore_not_available) ==
    DropBrokenFrom(packages_dict, 1, package_type, ignore_not_available)

\* What a load_packages call leaves behind: the exception it raised or the
\* mapping it returned (value), and what it did on the way: the
\* identifiers whose constructor it called (called), the instances the
\* constructors returned (created), the identifiers whose instance passed
\* verifyObject (verified), the identifiers it put in to_remove and the
\* exceptions the constructors raised (ctor_exc), whose dicts the
\* constructors were handed (settings_of) and the dicts as the constructors
\* left them (written).
Outcome(exc, value, done) ==
    [state |-> IF exc.type = "none" THEN "returned" ELSE "raised",
     exc |-> exc, value |-> value, called |-> done.called,
     created |-> done.created, verified |-> done.verified,
     to_remove |-> done.to_remove, ctor_exc |-> done.ctor_exc,
     settings_of |-> done.settings_of, written |-> done.written]

\* the state of the loop of load_packages before its first step: loaded
\* holds the values the loop has assigned to packages_dict
Nothing ==
    [loaded |-> <<>>, called |-> {}, created |-> <<>>, verified |-> {},
     to_remove |-> {}, ctor_exc |-> <<>>, settings_of |-> "copy",
     written |-> <<>>]

NotCalled == [Outcome(NoExc, <<>>, Nothing) EXCEPT !.state = "none"]

\* f with f[id] = v
Bind(f, id, v) == [k \in (DOMAIN f) \cup {id} |-> IF k = id THEN v ELSE f[k]]

\* a variant that takes every unavailable service for docker
docker_unavailable_any(sna_exc) == TRUE

\* a variant that never filters
ci_filtered_never(only_ci_supported, instance) == FALSE

\* sna_exc.dep == "docker"
docker_unavailable(sna_exc) == sna_exc.arg = {"docker"}

\* only_ci_supported and not packages_dict[package_identifier].ci_supported,
\* for an instance whose ci_supported can be read
ci_filtered(only_ci_supported, instance) ==
    only_ci_supported /\ ~instance.ci_supported

\* The for loop of load_packages (lines 774-807), from the i-th item of
\* packages_dict on, and the return (lines 809-811).  The test
\* package_type == "search_source" of line 779 compares an Enum member
\* with a str and is never true.
RECURSIVE LoadLoop(_, _, _, _, _, _)
LoadLoop(packages_dict, i, package_type, instantiate_objects, only_ci_supported, acc) ==
    IF i > Len(packages_dict)
    THEN Outcome(NoExc,
                 [k \in (DOMAIN acc.loaded) \ acc.to_remove |-> acc.loaded[k]],
                 acc)
    ELSE
    LET package_class == packages_dict[i]
        package_identifier == package_class.id
        package_details == package_type_overview[package_type]
        params == [operation_name |-> package_details.operation_name,
                   settings |-> package_class.settings]
        Continue(acc2) ==
            LoadLoop(packages_dict, i + 1, package_type, instantiate_objects,
                     only_ci_supported, acc2)
    IN
    IF ~package_class.has_endpoint
    THEN Outcome(Exc("MissingDependencyError", {package_identifier}), <<>>, acc)
    ELSE IF ~instantiate_objects
    THEN Continue([acc EXCEPT !.loaded =
                       Bind(@, package_identifier, package_class.endpoint)])
    ELSE
    LET built == Construct(package_class.endpoint, params)
        acc_called == [acc EXCEPT
                          !.called = @ \cup {package_identifier},
                          !.written = Bind(@, package_identifier, built.written)]
        acc_failed == [acc_called EXCEPT
                          !.ctor_exc = Bind(@, package_identifier, built.exc)]
        acc_built == [acc_called EXCEPT
                         !.loaded = Bind(@, package_identifier, built.instance),
                         !.created = Bind(@, package_identifier, built.instance)]
        acc_removed == [acc_built EXCEPT
                           !.to_remove = @ \cup {package_identifier}]
        checked == verifyObject(package_details.import_name, built.instance)
    IN
    IF built.exc.type = "ServiceNotAvailableException"
    THEN IF docker_unavailable(built.exc)
         THEN Continue([acc_failed EXCEPT
                           !.to_remove = @ \cup {package_identifier}])
         ELSE Outcome(built.exc, <<>>, acc_failed)
    ELSE IF built.exc.type # "none"
    THEN Outcome(built.exc, <<>>, acc_failed)
    ELSE IF only_ci_supported /\ "ci_supported" \notin built.instance.members
    THEN Outcome(Exc("AttributeError", {"ci_supported"}), <<>>, acc_built)
    ELSE IF ci_filtered(only_ci_supported, built.instance)
    THEN Continue(acc_removed)
    ELSE IF checked.type # "none"
    THEN Outcome(checked, <<>>, acc_built)
    ELSE Continue([acc_built EXCEPT !.verified = @ \cup {package_identifier}])

\* a variant that instantiates whatever instantiate_objects is
load_packages_instantiating(pkgs, dir, package_type, selected_packages, ignore_not_available, instantiate_objects, only_ci_supported) ==
    LET got == get_packages_dict(pkgs, dir, selected_packages, package_type,
                                 ignore_not_available)
        kept == drop_broken_packages(got.packages_dict, package_type,
                                     ignore_not_available)
    IN  IF got.exc.type # "none"
        THEN Outcome(got.exc, <<>>, Nothing)
        ELSE IF kept.exc.type # "none"
        THEN Outcome(kept.exc, <<>>, Nothing)
        ELSE LoadLoop(kept.packages_dict, 1, package_type, TRUE,
                      only_ci_supported,
                      [Nothing EXCEPT !.settings_of = got.settings_of])

\* PackageManager.load_packages
load_packages(pkgs, dir, package_type, selected_packages, ignore_not_available, instantiate_objects, only_ci_supported) ==
    LET got == get_packages_dict(pkgs, dir, selected_packages, package_type,
                                 ignore_not_available)
        kept == drop_broken_packages(got.packages_dict, package_type,
                                     ignore_not_available)
    IN  IF got.exc.type # "none"
        THEN Outcome(got.exc, <<>>, Nothing)
        ELSE IF kept.exc.type # "none"
        THEN Outcome(kept.exc, <<>>, Nothing)
        ELSE LoadLoop(kept.packages_dict, 1, package_type, instantiate_objects,
                      only_ci_supported,
                      [Nothing EXCEPT !.settings_of = got.settings_of])

\* The caller's list after a load_packages call.  A constructor that
\* writes into the dict it is handed writes into the caller's dict when the
\* settings of packages_dict are the caller's dicts; the settings of an
\* identifier are the dict of the last selection with that identifier
\* (line 688).
Left(selected_packages, outcome) ==
    IF outcome.settings_of # "caller"
    THEN selected_packages
    ELSE [i \in DOMAIN selected_packages |->
            LET id == Lower(selected_packages[i]["endpoint"].v) IN
            IF /\ id \in DOMAIN outcome.written
               /\ \A j \in DOMAIN selected_packages :
                     j > i => Lower(selected_packages[j]["endpoint"].v) # id
            THEN outcome.written[id]
            ELSE selected_packages[i]]

(***************************************************************************)
(* The other operations of the PackageManager                              *)
(***************************************************************************)
\* package_class.__doc__: the docstring of a class stands for its name
Doc(cls) == cls

\* The for loop of discover_packages, from the i-th item of
\* discovered_packages on.  discovered_packages is self.packages[package_type]
\* itself, not a copy: what the loop writes, it writes into the index, and
\* what it skips stays in the dict that is returned.
RECURSIVE DiscoverFrom(_, _, _, _)
DiscoverFrom(pkgs, i, package_type, installed_only) ==
    LET discovered_packages == pkgs[package_type] IN
    IF i > Len(discovered_packages)
    THEN [exc |-> NoExc, packages |-> pkgs, value |-> discovered_packages]
    ELSE
    LET package == discovered_packages[i] IN
    IF installed_only /\ ~package.installed
    THEN DiscoverFrom(pkgs, i + 1, package_type, installed_only)
    ELSE LET package_class == load_package_endpoint(pkgs, package_type, package.id) IN
         IF package_class.exc.type # "none"
         THEN [exc |-> package_class.exc, packages |-> pkgs, value |-> <<>>]
         ELSE DiscoverFrom(
                  [pkgs EXCEPT ![package_type][i].description = Doc(package_class.cls)],
                  i + 1, package_type, installed_only)

\* PackageManager.discover_packages
discover_packages(pkgs, package_type, installed_only) ==
    DiscoverFrom(pkgs, 1, package_type, installed_only)

\* the type that the JSON schema gives for a field, with the fixes of
\* __apply_package_details_fixes
SchemaType(package_type, f) ==
    IF \/ f.name \in {"paper_path", "word_template", "paper_output"}
       \/ package_type = "search_source" /\ f.name = "filename"
    THEN "path"
    ELSE IF "str" \in f.type THEN "string"
    ELSE IF "dict" \in f.type THEN "object"
    ELSE "ref"

\* PackageManager.get_package_details: the properties of the JSON schema
\* of the settings class
get_package_details(pkgs, package_type, package_identifier) ==
    LET package_class == load_package_endpoint(pkgs, package_type,
                                               Lower(package_identifier))
    IN  IF package_class.exc.type # "none"
        THEN [exc |-> package_class.exc, value |-> <<>>]
        ELSE IF "settings_class" \notin Classes[package_class.cls].members
        THEN [exc |-> Exc("ServiceNotAvailableException", {package_identifier}),
              value |-> <<>>]
        ELSE LET fields == Fields(Classes[package_class.cls].settings_class)
                 names == {fields[i].name : i \in DOMAIN fields}
                         \cup (IF package_type = "search_source"
                               THEN {"filename"} ELSE {})
             IN  [exc |-> NoExc,
                  value |-> [name \in names |->
                                IF \E i \in DOMAIN fields : fields[i].name = name
                                THEN SchemaType(package_type,
                                         fields[CHOOSE i \in DOMAIN fields :
                                                    fields[i].name = name])
                                ELSE "path"]]

\* the keys of package_endpoints_json, which are those of
\* package_type_overview in its order
OverviewOrder == <<"search_source", "prep", "screen">>

\* the place of a missing file
NoFile == [kind |-> "no file"]

\* The loop of __add_package_endpoints over the items of one type (lines
\* 912-993): an item of the selected package is put into the index as
\* installed, and its class is loaded, which may raise.
RECURSIVE AddItems(_, _, _, _)
AddItems(pkgs, endpoint_type, items, selected_package) ==
    IF items = <<>> THEN [exc |-> NoExc, packages |-> pkgs]
    ELSE
    LET endpoint_item == Head(items)
        id == endpoint_item.package_endpoint_identifier
    IN
    IF LeadingSegment(id) # selected_package
    THEN AddItems(pkgs, endpoint_type, Tail(items), selected_package)
    ELSE LET put == [pkgs EXCEPT ![endpoint_type] =
                        DictPut(@, IndexEntry(id, endpoint_item.endpoint,
                                              TRUE, NoKey))]
             endpoint == load_package_endpoint(put, endpoint_type, id)
         IN  IF endpoint.exc.type # "none"
             THEN [exc |-> endpoint.exc, packages |-> put]
             ELSE AddItems(put, endpoint_type, Tail(items), selected_package)

\* [x for x in items if x[...].split(".")[0] == selected_package]
RECURSIVE OfPackage(_, _)
OfPackage(items, selected_package) ==
    IF items = <<>> THEN <<>>
    ELSE IF LeadingSegment(Head(items).package_endpoint_identifier) = selected_package
    THEN <<Head(items)>> \o OfPackage(Tail(items), selected_package)
    ELSE OfPackage(Tail(items), selected_package)

\* PackageManager.__add_package_endpoints, from the i-th type on
RECURSIVE AddPackageEndpointsFrom(_, _, _, _, _)
AddPackageEndpointsFrom(pkgs, i, package_endpoints_json, package_endpoints, selected_package) ==
    IF i > Len(OverviewOrder)
    THEN [exc |-> NoExc, packages |-> pkgs,
          package_endpoints_json |-> package_endpoints_json]
    ELSE
    LET endpoint_type == OverviewOrder[i] IN
    IF endpoint_type \notin DOMAIN package_endpoints
    THEN AddPackageEndpointsFrom(pkgs, i + 1, package_endpoints_json,
                                 package_endpoints, selected_package)
    ELSE LET added == AddItems(pkgs, endpoint_type,
                               package_endpoints[endpoint_type], selected_package)
         IN  IF added.exc.type # "none"
             THEN [exc |-> added.exc, packages |-> added.packages,
                   package_endpoints_json |-> package_endpoints_json]
             ELSE AddPackageEndpointsFrom(added.packages, i + 1,
                      [package_endpoints_json EXCEPT ![endpoint_type] =
                          @ \o OfPackage(package_endpoints[endpoint_type],
                                         selected_package)],
                      package_endpoints, selected_package)

\* sorted(items, key=lambda d: d["package_endpoint_identifier"]): a stable
\* sort, here by insertion from the right
RECURSIVE InsertSorted(_, _)
InsertSorted(item, items) ==
    IF items = <<>> THEN <<item>>
    ELSE IF StrLess(Head(items).package_endpoint_identifier,
                    item.package_endpoint_identifier)
    THEN <<Head(items)>> \o InsertSorted(item, Tail(items))
    ELSE <<item>> \o items

\* a variant that leaves the list as it is
unsorted(items) == items

RECURSIVE sorted(_)
sorted(items) ==
    IF items = <<>> THEN <<>>
    ELSE InsertSorted(Head(items), sorted(Tail(items)))

\* The loop of update_package_list over the packages of packages.json
\* (lines 1062-1091): a package without .colrev_endpoints.json is skipped.
RECURSIVE ScanPackages(_, _, _)
ScanPackages(pkgs, scanned, package_endpoints_json) ==
    IF scanned = <<>>
    THEN [exc |-> NoExc, packages |-> pkgs,
          package_endpoints_json |-> package_endpoints_json]
    ELSE
    LET package == Head(scanned) IN
    IF package.endpoints = NoFile
    THEN ScanPackages(pkgs, Tail(scanned), package_endpoints_json)
    ELSE LET added == AddPackageEndpointsFrom(pkgs, 1, package_endpoints_json,
                          package.endpoints, package.module)
         IN  IF added.exc.type # "none" THEN added
             ELSE ScanPackages(added.packages, Tail(scanned),
                               added.package_endpoints_json)

\* PackageManager.update_package_list: the index it leaves and the content
\* of template/package_endpoints.json, which is unlinked first and written
\* after the scan
update_package_list(pkgs, scanned) ==
    LET done == ScanPackages(pkgs, scanned,
                             [t \in PackageEndpointType |-> <<>>])
    IN  IF done.exc.type # "none"
        THEN [exc |-> done.exc, packages |-> done.packages, file |-> NoFile]
        ELSE [exc |-> NoExc, packages |-> done.packages,
              file |-> [t \in PackageEndpointType |->
                           sorted(done.package_endpoints_json[t])]]

(***************************************************************************)
(* The inputs of the model                                                 *)
(***************************************************************************)
\* identifiers
id_g == <<"g">>
id_G == <<"G">>
id_n == <<"n">>
id_x == <<"x">>
id_y == <<"y">>
id_w == <<"w">>
id_k == <<"k">>
id_s == <<"s">>
id_u == <<"u", ".", "p">>
id_v == <<"v", ".", "p">>
id_t == <<"t">>
id_q == <<"q">>
id_i == <<"i">>
id_spaced == <<"i", " ", "e">>
id_za == <<"z", ".", "a">>
id_zb == <<"z", ".", "b">>

\* The manifest of an installation with endpoints of every behaviour; the
\* package of u is not installed.
MainManifest ==
    [prep |-> << Item(id_g, "g.prep", "GeneralPolishPrep"),
                 Item(id_n, "n.prep", "CliPrep"),
                 Item(id_x, "x.prep", "PartialPrep"),
                 Item(id_y, "y.prep", "PartialCliPrep"),
                 Item(id_w, "w.prep", "UnflaggedPrep"),
                 Item(id_k, "k.prep", "DockerPrep"),
                 Item(id_s, "s.prep", "ServicePrep"),
                 Item(id_u, "u.prep", "GeneralPolishPrep") >>,
     search_source |-> << Item(id_i, "i.source", "IEEEXploreSearchSource") >>,
     screen |-> << Item(id_g, "g.screen", "BatchScreen"),
                   Item(id_n, "n.screen", "CliScreen"),
                   Item(id_k, "k.screen", "DockerScreen") >>]

\* A manifest that names g twice, an endpoint whose module imports a
\* missing library (v) and an endpoint whose class is gone (t).
BrokenManifest ==
    [prep |-> << Item(id_g, "n.prep", "CliPrep"),
                 Item(id_v, "v.prep", "GeneralPolishPrep"),
                 Item(id_g, "g.prep", "GeneralPolishPrep"),
                 Item(id_t, "g.prep", "RemovedPrep") >>,
     search_source |-> << Item(id_i, "i.source", "IEEEXploreSearchSource") >>,
     screen |-> << >>]

\* A manifest with an identifier that is not lowercase.
MalformedManifest ==
    [prep |-> << Item(id_g, "g.prep", "GeneralPolishPrep"),
                 Item(id_G, "g.prep", "GeneralPolishPrep") >>,
     search_source |-> << >>,
     screen |-> << >>]

\* A manifest with an identifier that holds a space.
SpacedManifest ==
    [prep |-> << Item(id_g, "g.prep", "GeneralPolishPrep") >>,
     search_source |-> << Item(id_spaced, "i.source", "IEEEXploreSearchSource") >>,
     screen |-> << >>]

\* A module of the project directory: what importing it raises and the
\* classes it defines
Module(exc, attrs) == [exc |-> exc, attrs |-> attrs]

EmptyDir == << >>

\* g.py defines both custom classes; q.py defines no CustomPrep
CustomDir ==
    (id_g :> Module(NoExc, {"CustomPrep", "CustomSearchSource"})) @@
    (id_q :> Module(NoExc, {"CustomSearchSource"}))

\* q.py imports a module that is not installed
UnimportableDir ==
    (id_g :> Module(NoExc, {"CustomPrep"})) @@
    (id_q :> Module(Exc("ModuleNotFoundError", {<<"d">>}), {}))

Environments ==
    { <<MainManifest, EmptyDir>>, <<MainManifest, CustomDir>>,
      <<MainManifest, UnimportableDir>>, <<BrokenManifest, EmptyDir>>,
      <<MalformedManifest, EmptyDir>>, <<SpacedManifest, EmptyDir>> }

\* the settings dict of a selection
Selected(id) == ("endpoint" :> Val("str", id))

SourceSettings(id) ==
    Selected(id) @@
    ("filename" :> Val("Path", Blank)) @@
    ("search_type" :> Val("SearchType", Blank)) @@
    ("search_parameters" :> Val("dict", Blank))

SelectionUniverse ==
    { Selected(id_g), Selected(id_G), Selected(id_n), Selected(id_x),
      Selected(id_y), Selected(id_w), Selected(id_k), Selected(id_s),
      Selected(id_u), Selected(id_q),
      Selected(id_g) @@ ("foo" :> Val("str", Blank)),
      SourceSettings(id_i),
      SourceSettings(id_i) @@ ("foo" :> Val("str", Blank)) }

SelectionLists ==
    UNION { [1..n -> SelectionUniverse] : n \in 0..MaxSelected }

Call(package_type, selected_packages, ignore_not_available, instantiate_objects, only_ci_supported) ==
    [package_type |-> package_type, selected_packages |-> selected_packages,
     ignore_not_available |-> ignore_not_available,
     instantiate_objects |-> instantiate_objects,
     only_ci_supported |-> only_ci_supported]

Calls ==
    { Call(t, sel, ina, inst, ci) :
        t \in PackageEndpointType, sel \in SelectionLists,
        ina \in BOOLEAN, inst \in BOOLEAN, ci \in BOOLEAN }

NoCall == Call("prep", <<>>, FALSE, FALSE, FALSE)

\* A package of template/packages.json: its module and the endpoints of
\* its .colrev_endpoints.json, by type
Package(module, endpoints) == [module |-> module, endpoints |-> endpoints]

\* z registers two preps, out of order, and a search source, and lists an
\* endpoint of another package
PackageZ ==
    Package(<<"z">>,
        [prep |-> << Item(id_zb, "g.prep", "GeneralPolishPrep"),
                     Item(id_q, "g.prep", "GeneralPolishPrep"),
                     Item(id_za, "n.prep", "CliPrep") >>,
         search_source |-> << Item(id_za, "i.source", "IEEEXploreSearchSource") >>])

\* g lists its prep twice and has no search source
PackageG ==
    Package(<<"g">>,
        [prep |-> << Item(id_g, "n.prep", "CliPrep"),
                     Item(id_g, "g.prep", "GeneralPolishPrep") >>])

\* the module of the endpoint of u cannot be imported
PackageU ==
    Package(<<"u">>,
        [prep |-> << Item(id_u, "u.prep", "GeneralPolishPrep") >>])

\* d has no .colrev_endpoints.json
PackageD == Package(<<"d">>, NoFile)

\* the contents of packages.json: no package is listed twice
ScannedLists ==
    { scanned \in UNION { [1..n -> {PackageZ, PackageG, PackageU}] :
                             n \in 0..MaxScanned } :
        \A i \in DOMAIN scanned : \A j \in DOMAIN scanned :
            scanned[i] = scanned[j] => i = j }
    \cup { <<PackageD, PackageZ>> }

\* the identifiers that callers ask for one at a time
AskedIds == {id_G, id_za}

\* the installations on which the operations are run
OperationEnvironments ==
    { <<MainManifest, CustomDir>>, <<BrokenManifest, EmptyDir>>,
      <<MalformedManifest, EmptyDir>> }

\* the raw dicts given to load_settings
SettingsKeys == {"endpoint", "paper_path", "comment", "foo", "bar"}

SettingsValues == {Val("str", Blank), Val("int", Blank)}

RawDicts == UNION { [K -> SettingsValues] : K \in SUBSET SettingsKeys }

SettingsCall(cls, data) == [cls |-> cls, data |-> data]

NoSettingsCall == SettingsCall("DefaultSettings", <<>>)

NoSettings == [state |-> "none", exc |-> NoExc, settings |-> <<>>]

\* An operation on the PackageManager other than load_packages: its name,
\* its arguments, the exception it raised and the value it returned
Operation(op, args, exc, value) ==
    [op |-> op, args |-> args, exc |-> exc, value |-> value]

NoOperation == Operation("none", <<>>, NoExc, <<>>)

\* no project is open: the package manager is used on its own
NoProject ==
    /\ review_manager = <<>>
    /\ records_bib = <<>>
    /\ file_system = {}
    /\ events = <<>>

(***************************************************************************)
(* The package manager: construction, then one load_packages call          *)
(***************************************************************************)
Init ==
    /\ verbose \in BOOLEAN
    /\ \E env \in Environments :
          LET built == PackageManagerInit(env[1], verbose) IN
          /\ init_exc = built.exc
          /\ packages = built.packages
          /\ package_endpoints_json_file = env[1]
          /\ project_dir = env[2]
    /\ call \in (IF init_exc.type = "none" THEN Calls ELSE {NoCall})
    /\ caller_selected_packages = call.selected_packages
    /\ result = NotCalled
    /\ settings_call = NoSettingsCall
    /\ settings_result = NoSettings
    /\ last = NoOperation
    /\ NoProject

\* a caller's load_packages(...) on the constructed PackageManager
LoadPackages ==
    /\ init_exc.type = "none"
    /\ result.state = "none"
    /\ result' = load_packages(packages, project_dir, call.package_type,
                               call.selected_packages, call.ignore_not_available,
                               call.instantiate_objects, call.only_ci_supported)
    /\ caller_selected_packages' = Left(caller_selected_packages, result')
    /\ UNCHANGED <<verbose, init_exc, packages, project_dir, call,
                   settings_call, settings_result,
                   package_endpoints_json_file, last>>
    /\ UNCHANGED project_vars

Next == LoadPackages

Spec == Init /\ [][Next]_vars

(***************************************************************************)
(* The settings loader on its own                                          *)
(***************************************************************************)
InitSettings ==
    /\ verbose = FALSE
    /\ init_exc = NoExc
    /\ packages = PackageManagerInit(MainManifest, FALSE).packages
    /\ package_endpoints_json_file = MainManifest
    /\ project_dir = EmptyDir
    /\ last = NoOperation
    /\ NoProject
    /\ call = NoCall
    /\ caller_selected_packages = call.selected_packages
    /\ result = NotCalled
    /\ settings_call \in
          { SettingsCall(cls, data) :
              cls \in {"DefaultSettings", "ExtensionSettings"},
              data \in RawDicts }
    /\ settings_result = NoSettings

\* settings_class.load_settings(data=settings)
LoadSettings ==
    /\ settings_result.state = "none"
    /\ settings_result' =
          LET loaded == load_settings(settings_call.cls, settings_call.data) IN
          [state |-> IF loaded.exc.type = "none" THEN "returned" ELSE "raised",
           exc |-> loaded.exc, settings |-> loaded.settings]
    /\ UNCHANGED <<verbose, init_exc, packages, project_dir, call, result,
                   settings_call, package_endpoints_json_file, last,
                   caller_selected_packages>>
    /\ UNCHANGED project_vars

NextSettings == LoadSettings

SpecSettings == InitSettings /\ [][NextSettings]_vars

(***************************************************************************)
(* The package manager in use: any sequence of its operations              *)
(***************************************************************************)
InitOperations ==
    /\ verbose \in BOOLEAN
    /\ \E env \in OperationEnvironments :
          LET built == PackageManagerInit(env[1], verbose) IN
          /\ init_exc = built.exc
          /\ packages = built.packages
          /\ package_endpoints_json_file = env[1]
          /\ project_dir = env[2]
    /\ call = NoCall
    /\ caller_selected_packages = call.selected_packages
    /\ result = NotCalled
    /\ settings_call = NoSettingsCall
    /\ settings_result = NoSettings
    /\ last = NoOperation
    /\ NoProject

\* package_manager.discover_packages(package_type=..., installed_only=...)
DiscoverPackages ==
    /\ init_exc.type = "none"
    /\ \E package_type \in PackageEndpointType, installed_only \in BOOLEAN :
          LET found == discover_packages(packages, package_type, installed_only) IN
          /\ packages' = found.packages
          /\ last' = Operation("discover_packages",
                         [package_type |-> package_type,
                          installed_only |-> installed_only],
                         found.exc, found.value)
    /\ call' = NoCall
    /\ caller_selected_packages' = <<>>
    /\ result' = NotCalled
    /\ UNCHANGED <<verbose, init_exc, project_dir, settings_call,
                   settings_result, package_endpoints_json_file>>
    /\ UNCHANGED project_vars

\* [{"endpoint": p} for p in search_source_identifiers]
RECURSIVE EndpointsOf(_)
EndpointsOf(discovered) ==
    IF discovered = <<>> THEN <<>>
    ELSE <<Selected(Head(discovered).id)>> \o EndpointsOf(Tail(discovered))

\* load_packages on what discover_packages returned, without instantiating
\* (Search.get_new_sources_heuristic_list)
LoadDiscovered ==
    /\ init_exc.type = "none"
    /\ last.op = "discover_packages"
    /\ last.exc.type = "none"
    /\ call' = Call(last.args.package_type, EndpointsOf(last.value),
                    FALSE, FALSE, FALSE)
    /\ result' = load_packages(packages, project_dir, call'.package_type,
                               call'.selected_packages, call'.ignore_not_available,
                               call'.instantiate_objects, call'.only_ci_supported)
    /\ caller_selected_packages' = Left(call'.selected_packages, result')
    /\ last' = Operation("load_discovered", last.args, NoExc, last.value)
    /\ UNCHANGED <<verbose, init_exc, packages, project_dir, settings_call,
                   settings_result, package_endpoints_json_file>>
    /\ UNCHANGED project_vars

\* load_packages for one identifier, without instantiating
\* (add_endpoint_for_operation)
LoadOne ==
    /\ init_exc.type = "none"
    /\ \E package_type \in PackageEndpointType, package_identifier \in AskedIds :
          /\ call' = Call(package_type, <<Selected(package_identifier)>>,
                          FALSE, FALSE, FALSE)
          /\ last' = Operation("load_packages",
                         [package_type |-> package_type,
                          package_identifier |-> package_identifier],
                         NoExc, <<>>)
    /\ result' = load_packages(packages, project_dir, call'.package_type,
                               call'.selected_packages, call'.ignore_not_available,
                               call'.instantiate_objects, call'.only_ci_supported)
    /\ caller_selected_packages' = Left(call'.selected_packages, result')
    /\ UNCHANGED <<verbose, init_exc, packages, project_dir, settings_call,
                   settings_result, package_endpoints_json_file>>
    /\ UNCHANGED project_vars

\* package_manager.load_package_endpoint(package_type=..., package_identifier=...)
LoadPackageEndpoint ==
    /\ init_exc.type = "none"
    /\ \E package_type \in PackageEndpointType, package_identifier \in AskedIds :
          LET loaded == load_package_endpoint(packages, package_type,
                                              package_identifier)
          IN  last' = Operation("load_package_endpoint",
                          [package_type |-> package_type,
                           package_identifier |-> package_identifier],
                          loaded.exc, loaded.cls)
    /\ call' = NoCall
    /\ caller_selected_packages' = <<>>
    /\ result' = NotCalled
    /\ UNCHANGED <<verbose, init_exc, packages, project_dir, settings_call,
                   settings_result, package_endpoints_json_file>>
    /\ UNCHANGED project_vars

\* package_manager.get_package_details(package_type=..., package_identifier=...)
GetPackageDetails ==
    /\ init_exc.type = "none"
    /\ \E package_type \in PackageEndpointType, package_identifier \in AskedIds :
          LET details == get_package_details(packages, package_type,
                                             package_identifier)
          IN  last' = Operation("get_package_details",
                          [package_type |-> package_type,
                           package_identifier |-> package_identifier],
                          details.exc, details.value)
    /\ call' = NoCall
    /\ caller_selected_packages' = <<>>
    /\ result' = NotCalled
    /\ UNCHANGED <<verbose, init_exc, packages, project_dir, settings_call,
                   settings_result, package_endpoints_json_file>>
    /\ UNCHANGED project_vars

\* package_manager.update_package_list(), for some content of packages.json
UpdatePackageList ==
    /\ init_exc.type = "none"
    /\ \E scanned \in ScannedLists :
          LET updated == update_package_list(packages, scanned) IN
          /\ packages' = updated.packages
          /\ package_endpoints_json_file' = updated.file
          /\ last' = Operation("update_package_list", [scanned |-> scanned],
                               updated.exc, <<>>)
    /\ call' = NoCall
    /\ caller_selected_packages' = <<>>
    /\ result' = NotCalled
    /\ UNCHANGED <<verbose, init_exc, project_dir, settings_call,
                   settings_result>>
    /\ UNCHANGED project_vars

NextOperations ==
    \/ DiscoverPackages
    \/ LoadDiscovered
    \/ LoadOne
    \/ LoadPackageEndpoint
    \/ GetPackageDetails
    \/ UpdatePackageList

SpecOperations == InitOperations /\ [][NextOperations]_vars

(***************************************************************************)
(* Properties of load_packages                                             *)
(***************************************************************************)
\* the call has been made
Done == result.state # "none"

Returned == result.state = "returned"

Raised(type) == result.state = "raised" /\ result.exc.type = type

\* the lowercased identifiers of the selections of the call
SelectedIds ==
    {Lower(call.selected_packages[i]["endpoint"].v) :
        i \in DOMAIN call.selected_packages}

\* the project directory has a file <id>.py
HasFile(id) == id \in DOMAIN project_dir

Registered(id) == id \in Keys(packages[call.package_type])

Installed(id) == Registered(id) /\ Get(packages[call.package_type], id).installed

\* a selection that the index resolves: no local file, registered, installed
BuiltIn(id) == ~HasFile(id) /\ Installed(id)

\* C1 as stated: with ignore_not_available=true and a single selection that
\* is not registered (and has no local file) among selections the index
\* resolves, load_packages returns a mapping without that identifier and,
\* when it is asked for the classes, with all the others.
C1_DropsUnregistered ==
    \A bad \in (IF Done THEN SelectedIds ELSE {}) :
        ( /\ call.ignore_not_available
          /\ ~HasFile(bad) /\ ~Registered(bad)
          /\ \A other \in SelectedIds \ {bad} : BuiltIn(other) )
        => /\ Returned
           /\ bad \notin DOMAIN result.value
           /\ ~call.instantiate_objects =>
                  SelectedIds \ {bad} \subseteq DOMAIN result.value

\* C1 (amended): with ignore_not_available=true, a selection that has no
\* local file and is not registered in the index of the requested type
\* makes load_packages raise MissingDependencyError and return no mapping.
C1_UnregisteredRaises ==
    ( /\ Done
      /\ call.ignore_not_available
      /\ \E bad \in SelectedIds : ~HasFile(bad) /\ ~Registered(bad) )
    => /\ Raised("MissingDependencyError")
       /\ DOMAIN result.value = {}

\* an unregistered selection beside one the index resolves, under
\* ignore_not_available: the call raised for the unregistered one
C1_Witness ==
    /\ Done
    /\ call.ignore_not_available
    /\ \E bad \in SelectedIds :
          /\ ~HasFile(bad) /\ ~Registered(bad)
          /\ \E other \in SelectedIds \ {bad} : BuiltIn(other)
          /\ Raised("MissingDependencyError")
          /\ result.exc.arg = {bad}

\* C2: with ignore_not_available=false, load_packages raises
\* MissingDependencyError and returns no mapping whenever a selection
\* without local file is absent from the index of the requested type or
\* is registered with installed=false.
C2_MissingDependency ==
    ( /\ Done
      /\ ~call.ignore_not_available
      /\ \E bad \in SelectedIds : ~HasFile(bad) /\ ~Installed(bad) )
    => /\ Raised("MissingDependencyError")
       /\ DOMAIN result.value = {}

\* a registered selection flagged installed=false made the call raise
C2_Witness ==
    /\ Done
    /\ ~call.ignore_not_available
    /\ \E bad \in SelectedIds :
          /\ ~HasFile(bad) /\ Registered(bad) /\ ~Installed(bad)
          /\ Raised("MissingDependencyError")
          /\ result.exc.arg = {bad}

\* C3 as stated: with ignore_not_available=true, a selection that is
\* registered with installed=false is dropped: the call returns a mapping
\* without it and, when it is asked for the classes, with all the other
\* selections.
C3_DropsUninstalled ==
    \A bad \in (IF Done THEN SelectedIds ELSE {}) :
        ( /\ call.ignore_not_available
          /\ ~HasFile(bad) /\ Registered(bad) /\ ~Installed(bad)
          /\ \A other \in SelectedIds \ {bad} : BuiltIn(other) )
        => /\ Returned
           /\ bad \notin DOMAIN result.value
           /\ ~call.instantiate_objects =>
                  SelectedIds \ {bad} \subseteq DOMAIN result.value

\* the instance satisfies the interface of the requested type
Conforms(instance) ==
    package_type_overview[call.package_type].import_name \subseteq instance.members

\* the instance has a ci_supported attribute and it is false
NotForCi(instance) ==
    "ci_supported" \in instance.members /\ ~instance.ci_supported

\* C4: with only_ci_supported=true and instantiate_objects=true, the
\* returned mapping holds no instance whose ci_supported is false and holds
\* every created instance that has ci_supported true and conforms; an
\* instance with ci_supported false is put in to_remove and the loop goes
\* on: no error is raised at it.
C4_CiFiltering ==
    (Done /\ call.only_ci_supported /\ call.instantiate_objects)
    => /\ \A id \in DOMAIN result.value : result.value[id].ci_supported
       /\ Returned =>
            \A id \in DOMAIN result.created :
                ( /\ "ci_supported" \in result.created[id].members
                  /\ result.created[id].ci_supported
                  /\ Conforms(result.created[id]) )
                => /\ id \in DOMAIN result.value
                   /\ result.value[id] = result.created[id]
       /\ \A id \in DOMAIN result.created :
              NotForCi(result.created[id]) => id \in result.to_remove

\* of two created instances, the one with ci_supported true was returned
\* and the one with ci_supported false was removed
C4_Witness ==
    /\ Returned /\ call.only_ci_supported /\ call.instantiate_objects
    /\ \E a \in DOMAIN result.value : \E b \in DOMAIN result.created :
          /\ result.value[a].ci_supported
          /\ NotForCi(result.created[b])
          /\ b \in result.to_remove
          /\ b \notin DOMAIN result.value

\* C5: every value of the mapping returned with instantiate_objects=true is
\* an instance that passed verifyObject against the interface of the
\* requested type: its ci_supported can be read and the operation of its
\* type (prepare for prep, run_search for search_source, run_screen for
\* screen) is there.
C5_ReturnedConform ==
    (Returned /\ call.instantiate_objects)
    => \A id \in DOMAIN result.value :
          /\ result.value[id].kind = "instance"
          /\ id \in result.verified
          /\ Conforms(result.value[id])
          /\ "ci_supported" \in result.value[id].members
          /\ (CASE call.package_type = "prep" -> "prepare"
                 [] call.package_type = "search_source" -> "run_search"
                 [] call.package_type = "screen" -> "run_screen")
                 \in result.value[id].members

\* a prep selection was returned as an instance with prepare
C5_Witness ==
    /\ Returned /\ call.instantiate_objects /\ call.package_type = "prep"
    /\ \E id \in DOMAIN result.value :
          /\ result.value[id].kind = "instance"
          /\ "prepare" \in result.value[id].members

\* C6 as stated: whenever an instance that does not conform has been
\* created, the call raises, whatever the flags of the call and of the
\* instance.
C6_AlwaysSurfaced ==
    Done => \A id \in DOMAIN result.created :
                ~Conforms(result.created[id]) => result.state = "raised"

\* C6 (amended): an instance that does not conform makes the call raise
\* and return no mapping (Invalid from verifyObject, or AttributeError
\* when only_ci_supported reads a ci_supported that is missing), whatever
\* ignore_not_available is, unless only_ci_supported is set and its
\* ci_supported is false.
C6_SurfacedUnlessFiltered ==
    Done => \A id \in DOMAIN result.created :
                ( /\ ~Conforms(result.created[id])
                  /\ ~(call.only_ci_supported /\ NotForCi(result.created[id])) )
                => /\ IF /\ call.only_ci_supported
                         /\ "ci_supported" \notin result.created[id].members
                      THEN Raised("AttributeError")
                      ELSE Raised("Invalid")
                   /\ DOMAIN result.value = {}

\* under ignore_not_available and only_ci_supported, an instance without
\* the operation of its type made the call raise Invalid
C6_Witness ==
    /\ Raised("Invalid")
    /\ call.ignore_not_available /\ call.only_ci_supported
    /\ \E id \in DOMAIN result.created :
          ~Conforms(result.created[id]) /\ result.created[id].ci_supported

\* the module <id>.py of the project directory can be imported and defines
\* the custom class of the requested type
CustomOk(id) ==
    /\ HasFile(id)
    /\ project_dir[id].exc.type = "none"
    /\ package_type_overview[call.package_type].custom_class
           \in project_dir[id].attrs

C8_BrokenCustom ==
    \A bad \in (IF Done THEN SelectedIds ELSE {}) :
        ( /\ HasFile(bad)
          /\ project_dir[bad].exc.type = "none"
          /\ ~CustomOk(bad)
          /\ \A other \in SelectedIds \ {bad} : CustomOk(other) \/ BuiltIn(other) )
        => IF ~call.ignore_not_available
           THEN Raised("MissingDependencyError")
           ELSE /\ Returned
                /\ bad \notin DOMAIN result.value
                /\ ~call.instantiate_objects =>
                       SelectedIds \ {bad} \subseteq DOMAIN result.value

ServiceNotAvailable(exc) == exc.type = "ServiceNotAvailableException"

\* the project module of the selection could not be imported
Unimportable(id) == HasFile(id) /\ project_dir[id].exc.type # "none"

SettingsDone == settings_result.state # "none"

\* the keys of the raw dict that are no field of the settings class
Undeclared == DOMAIN settings_call.data \ FieldNames(settings_call.cls)

\* every field that is not Optional has a value of its type (a str will do
\* for a Path)
Supplied ==
    \A i \in DOMAIN Fields(settings_call.cls) :
        LET f == Fields(settings_call.cls)[i] IN
        IF f.name \in DOMAIN settings_call.data
        THEN \/ settings_call.data[f.name].t \in f.type
             \/ "Path" \in f.type /\ settings_call.data[f.name].t = "str"
        ELSE f.optional

\* C10 as stated: load_settings fails with an error that names an
\* undeclared key whenever the raw dict has one, and returns the typed
\* settings whenever the raw dict has declared keys only and supplies every
\* required field.
C10_RejectsUndeclared ==
    SettingsDone =>
      /\ Undeclared # {} =>
            /\ settings_result.state = "raised"
            /\ \E key \in Undeclared : key \in settings_result.exc.arg
      /\ (Undeclared = {} /\ Supplied) =>
            /\ settings_result.state = "returned"
            /\ DOMAIN settings_result.settings = FieldNames(settings_call.cls)

\* C11 as stated: when the raw dict has several keys that are no field of
\* the settings class, load_settings raises an error that lists them all:
\* the keys it reports are exactly the undeclared keys of the raw dict.
C11_ListsEveryUndeclared ==
    ( /\ SettingsDone
      /\ \E a \in Undeclared : \E b \in Undeclared : a # b )
    => /\ settings_result.state = "raised"
       /\ settings_result.exc.arg = Undeclared

\* the settings dict that packages_dict holds for id: the one of the last
\* selection with that identifier
RawSettings(id) ==
    LET at == {i \in DOMAIN call.selected_packages :
                  Lower(call.selected_packages[i]["endpoint"].v) = id}
    IN  call.selected_packages[CHOOSE i \in at : \A j \in at : j <= i]

\* the fields that the settings class of the endpoint class declares
Declared(cls) == FieldNames(Classes[cls].settings_class)

\* the class whose constructor the call runs for id
ResolvedClass(id) ==
    IF HasFile(id)
    THEN package_type_overview[call.package_type].custom_class
    ELSE Get(packages[call.package_type], id).endpoint.cls

Constructed == init_exc.type = "none"

\* the list has two items with the same identifier
Twice(package_list) ==
    \E i \in DOMAIN package_list : \E j \in DOMAIN package_list :
        /\ i # j
        /\ package_list[i].package_endpoint_identifier
               = package_list[j].package_endpoint_identifier

\* C13: in every state of a constructed PackageManager, after any sequence
\* of its operations, no two entries of the index of a type have the same
\* identifier.
C13_UniqueIdentifiers ==
    Constructed =>
        \A t \in PackageEndpointType :
            \A i \in DOMAIN packages[t] : \A j \in DOMAIN packages[t] :
                packages[t][i].id = packages[t][j].id => i = j

\* update_package_list has scanned a package that lists an identifier
\* twice: the manifest it wrote has it twice, the index once
C13_Witness ==
    /\ Constructed
    /\ last.op = "update_package_list" /\ last.exc.type = "none"
    /\ Twice(package_endpoints_json_file["prep"])
    /\ id_g \in Keys(packages["prep"])

\* the identifier holds a space or an uppercase letter
Malformed(id) == \E k \in DOMAIN id : id[k] \in {" ", "A", "B", "G"}

\* the manifest from which the index was loaded has a malformed identifier
MalformedEntry ==
    \E t \in PackageEndpointType :
        \E i \in DOMAIN package_endpoints_json_file[t] :
            Malformed(package_endpoints_json_file[t][i].package_endpoint_identifier)

\* C14: no identifier of the index that the constructor loaded holds a
\* space or an uppercase letter, and loading a manifest with such an
\* identifier raises (the AssertionError of the asserts) and leaves no
\* index.
C14_WellFormedIdentifiers ==
    /\ Constructed =>
          \A t \in PackageEndpointType : \A i \in DOMAIN packages[t] :
              ~Malformed(packages[t][i].id)
    /\ MalformedEntry =>
          /\ init_exc.type = "AssertionError"
          /\ packages = <<>>

\* a manifest with a space in an identifier was rejected
C14_Witness ==
    /\ init_exc.type = "AssertionError"
    /\ \E i \in DOMAIN package_endpoints_json_file["search_source"] :
          \E k \in DOMAIN package_endpoints_json_file["search_source"][i]
                              .package_endpoint_identifier :
              package_endpoints_json_file["search_source"][i]
                  .package_endpoint_identifier[k] = " "

\* the name that the failure of importing the endpoint carries (the module
\* that is missing or the class that the module lacks), <<>> if the
\* endpoint can be imported
FailingName(endpoint) ==
    IF endpoint.module \in DOMAIN BrokenModules
    THEN Text(BrokenModules[endpoint.module])
    ELSE IF endpoint.cls \notin InstalledModules[endpoint.module]
    THEN Text(endpoint.cls)
    ELSE <<>>

\* the failure is not the absence of the package of the identifier
OtherFailure(id, endpoint) ==
    FailingName(endpoint) \notin {<<>>, LeadingSegment(id)}

\* the items of the manifest that the index keeps: the last one of each
\* identifier
Kept(t) ==
    LET package_list == package_endpoints_json_file[t] IN
    {package_list[i] : i \in
        {i \in DOMAIN package_list :
            \A j \in DOMAIN package_list :
                package_list[j].package_endpoint_identifier
                    = package_list[i].package_endpoint_identifier => j <= i}}

Discovered(installed_only) ==
    /\ last.op = "discover_packages"
    /\ last.args.installed_only = installed_only

\* the last operation was load_packages on what discover_packages with
\* this installed_only had returned
LoadedDiscovered(installed_only) ==
    /\ last.op = "load_discovered"
    /\ last.args.installed_only = installed_only

\* C16 as stated: discover_packages(installed_only=false) completes, and
\* load_packages on the identifiers it returned, with
\* instantiate_objects=false, returns a mapping that binds every one of
\* them that is flagged installed to a class.
C16_DiscoverThenLoad ==
    /\ Discovered(FALSE) => last.exc.type = "none"
    /\ LoadedDiscovered(FALSE) =>
          /\ Returned
          /\ \A i \in DOMAIN last.value :
                last.value[i].installed =>
                    /\ last.value[i].id \in DOMAIN result.value
                    /\ result.value[last.value[i].id].kind = "class"

\* C17 as stated: the mapping that discover_packages(installed_only=true)
\* returns has exactly the identifiers of the index of the type that are
\* flagged installed, and none that is flagged installed=false.
C17_InstalledOnly ==
    (Discovered(TRUE) /\ last.exc.type = "none")
    => /\ \A i \in DOMAIN last.value : last.value[i].installed
       /\ Keys(last.value) =
             {packages[last.args.package_type][i].id :
                 i \in {i \in DOMAIN packages[last.args.package_type] :
                           packages[last.args.package_type][i].installed}}

(***************************************************************************)
(* More properties of load_packages                                        *)
(***************************************************************************)
\* C18 as stated: the mapping that a call with instantiate_objects=false
\* returns binds every selected identifier to a class, and the call has
\* called no constructor and verified nothing.
C18_EverySelectedClass ==
    (Returned /\ ~call.instantiate_objects)
    => /\ result.called = {}
       /\ result.verified = {}
       /\ \A id \in SelectedIds :
             /\ id \in DOMAIN result.value
             /\ result.value[id].kind = "class"

\* C18 (amended): a call with instantiate_objects=false calls no constructor and
\* verifies nothing, so that no error of a constructor, of the settings or
\* of the conformance check can end it; the mapping it returns binds every
\* selected identifier that was resolved (all but those whose project module
\* could not be imported under ignore_not_available) to the class it was
\* resolved to.
C18_ClassesOnly ==
    (Done /\ ~call.instantiate_objects)
    => /\ result.called = {}
       /\ DOMAIN result.created = {}
       /\ result.verified = {}
       /\ result.exc.type \notin {"ParameterError", "MissingValueError",
                                  "WrongTypeError", "Invalid",
                                  "ServiceNotAvailableException"}
       /\ Returned =>
            /\ \A id \in DOMAIN result.value :
                  result.value[id] =
                      ClassRef(ResolvedClass(id),
                               IF HasFile(id) THEN "project" ELSE "index")
            /\ \A id \in SelectedIds :
                  \/ id \in DOMAIN result.value
                  \/ call.ignore_not_available /\ Unimportable(id)

\* the class of an endpoint whose constructor needs docker was returned
\* for a selection, next to settings with an undeclared field
C18_Witness ==
    /\ Returned /\ ~call.instantiate_objects
    /\ \E id \in DOMAIN result.value : result.value[id].cls = "DockerPrep"
    /\ \E i \in DOMAIN call.selected_packages :
          "foo" \in DOMAIN call.selected_packages[i]

\* the lowercase form of an identifier of the model
Folded(id) ==
    [k \in DOMAIN id |->
        CASE id[k] = "A" -> "a" [] id[k] = "B" -> "b" [] id[k] = "G" -> "g"
          [] OTHER -> id[k]]

\* the selections of the call with their identifiers in lowercase
FoldedSelections ==
    [i \in DOMAIN call.selected_packages |->
        [call.selected_packages[i] EXCEPT
            !["endpoint"] = Val("str", Folded(@.v))]]

\* C19: every key of the returned mapping is the lowercase form of a
\* selected identifier, and the call ends as the same call with all
\* identifiers in lowercase ends: with the same exception, or with the same
\* keys bound to the same implementations.
C19_CaseInsensitive ==
    Done =>
      LET same == load_packages(packages, project_dir, call.package_type,
                      FoldedSelections, call.ignore_not_available,
                      call.instantiate_objects, call.only_ci_supported)
      IN  /\ \A key \in DOMAIN result.value :
                /\ key = Folded(key)
                /\ \E i \in DOMAIN call.selected_packages :
                      key = Folded(call.selected_packages[i]["endpoint"].v)
          /\ result.state = same.state
          /\ result.exc = same.exc
          /\ DOMAIN result.value = DOMAIN same.value
          /\ \A key \in DOMAIN result.value :
                /\ result.value[key].cls = same.value[key].cls
                /\ result.value[key].origin = same.value[key].origin

\* a selection written with an uppercase letter was returned under its
\* lowercase form
C19_Witness ==
    /\ Returned
    /\ \E i \in DOMAIN call.selected_packages :
          call.selected_packages[i]["endpoint"].v = id_G
    /\ id_g \in DOMAIN result.value
    /\ id_G \notin DOMAIN result.value

(***************************************************************************)
(* The frame of the operations                                             *)
(***************************************************************************)
\* C20 as stated: no step of load_packages, discover_packages,
\* load_package_endpoint or get_package_details changes the index; only
\* update_package_list does.
C20_IndexReadOnly ==
    [][last'.op # "update_package_list" => packages' = packages]_vars

(***************************************************************************)
(* Properties of update_package_list                                       *)
(***************************************************************************)
\* update_package_list has run to its end
Updated == last.op = "update_package_list" /\ last.exc.type = "none"

\* C21: the manifest that update_package_list has written has one list for
\* every endpoint type, and in each list no entry comes before an entry
\* with a smaller package_endpoint_identifier, whatever packages were
\* scanned and in whatever order.
C21_ManifestSorted ==
    Updated =>
        /\ package_endpoints_json_file # NoFile
        /\ DOMAIN package_endpoints_json_file = PackageEndpointType
        /\ \A t \in PackageEndpointType :
              LET package_list == package_endpoints_json_file[t] IN
              \A i \in DOMAIN package_list : \A j \in DOMAIN package_list :
                  i < j => ~StrLess(package_list[j].package_endpoint_identifier,
                                    package_list[i].package_endpoint_identifier)

\* two packages were scanned, the second with smaller identifiers than
\* the first, one of them listing its endpoints out of order, and the
\* manifest has the endpoints of both
C21_Witness ==
    /\ Updated
    /\ last.args.scanned = <<PackageZ, PackageG>>
    /\ Len(package_endpoints_json_file["prep"]) = 4
    /\ package_endpoints_json_file["prep"][1].package_endpoint_identifier = id_g
    /\ package_endpoints_json_file["prep"][4].package_endpoint_identifier = id_zb


(***************************************************************************)
(* Properties of load_packages: the caller's objects                       *)
(***************************************************************************)
\* a constructor wrote into the settings dict it was handed
Wrote ==
    \E i \in DOMAIN call.selected_packages :
        LET id == Lower(call.selected_packages[i]["endpoint"].v) IN
        /\ id \in DOMAIN result.written
        /\ result.written[id] # call.selected_packages[i]

C23_WitnessRaised ==
    /\ result.state = "raised"
    /\ Wrote
    /\ caller_selected_packages = call.selected_packages


(***************************************************************************)
(* The operations on a project: records and events                         *)
(***************************************************************************)
\* the most records that data/records.bib holds
MaxRecords == 3

\* the largest create_split asked for
MaxSplit == 3

\* A record of data/records.bib: a dict from field names to values.  The
\* dataset keeps the records in a dict by ID.
Record(id, status) == ("ID" :> id) @@ ("colrev_status" :> status)

\* del d[key]
Without(d, key) == [k \in (DOMAIN d) \ {key} |-> d[k]]

\* d.get(key, default)
GetOr(d, key, default) == IF key \in DOMAIN d THEN d[key] ELSE default

\* A call that an operation makes on a collaborator (the package manager,
\* an endpoint, the dataset, git), with what identifies it
Event(name, detail) == [event |-> name, detail |-> detail]

\* the ReviewManager that an operation is constructed with
ReviewManager(settings, in_ci_environment, force_mode) ==
    [settings |-> settings, in_ci_environment |-> in_ci_environment,
     force_mode |-> force_mode]

\* [r["ID"] for r in records]
IdsOf(records) == [i \in DOMAIN records |-> records[i]["ID"]]

\* colrev.record.Record(data=record_dict).set_status(target_state=...):
\* the Record wraps the dict it is given, and the status is set in it
set_status(record_dict, target_state) ==
    Bind(record_dict, "colrev_status", target_state)

\* dataset.read_next_record(conditions=[{"colrev_status": status}]): the
\* generator yields the records of the file with that status, each once,
\* in the order of the file
read_next_record(saved, status) ==
    LET Matches(r) == r["colrev_status"] = status IN SelectSeq(saved, Matches)

(***************************************************************************)
(* Screen                                                                  *)
(***************************************************************************)
\* a variant that includes every record
screen_include_every(records) ==
    [saved |-> [i \in DOMAIN records |->
                   set_status(records[i], "rev_included")],
     events |-> << Event("save_records_dict", "all"),
                   Event("create_commit", "Screen (include_all)") >>]

\* Screen.__screen_include_all
screen_include_all(records) ==
    [saved |-> [i \in DOMAIN records |->
                   IF records[i]["colrev_status"] = "pdf_prepared"
                   THEN set_status(records[i], "rev_included")
                   ELSE records[i]],
     events |-> << Event("save_records_dict", "all"),
                   Event("create_commit", "Screen (include_all)") >>]

\* Screen.screen(record=record, screen_inclusion=True, ...) on a record
\* dict: the criteria of the settings are joined with "=in"
screen_included(record_dict, criteria) ==
    set_status(Bind(record_dict, "screening_criteria",
                    IF criteria = <<>> THEN "NA"
                    ELSE [joined |-> criteria, as |-> "in"]),
               "rev_included")

\* Screen.__auto_include: every pdf_prepared record with include_flag "1"
\* is included and saved, then loses its include_flag in memory, and one
\* commit is made; nothing happens when there is no such record
auto_include(records, saved, criteria) ==
    LET Flagged(r) == /\ r["colrev_status"] = "pdf_prepared"
                      /\ GetOr(r, "include_flag", "0") = "1"
        selected_auto_include_ids == IdsOf(SelectSeq(records, Flagged))
        Stored(r) == IF \E i \in DOMAIN records :
                           records[i]["ID"] = r["ID"] /\ Flagged(records[i])
                     THEN screen_included(
                              records[CHOOSE i \in DOMAIN records :
                                         records[i]["ID"] = r["ID"]], criteria)
                     ELSE r
    IN  IF selected_auto_include_ids = <<>>
        THEN [ids |-> <<>>, records |-> records, saved |-> saved, events |-> <<>>]
        ELSE [ids |-> selected_auto_include_ids,
              records |-> [i \in DOMAIN records |->
                              IF Flagged(records[i])
                              THEN Without(screen_included(records[i], criteria),
                                           "include_flag")
                              ELSE records[i]],
              saved |-> [i \in DOMAIN saved |-> Stored(saved[i])],
              events |-> [i \in DOMAIN selected_auto_include_ids |->
                             Event("save_records_dict",
                                   selected_auto_include_ids[i])]
                         \o << Event("create_commit",
                                     "Include records (include_flag)") >>]

\* a variant that finds every endpoint in the mapping
absent_never(key, endpoint_dict) == FALSE

\* screen_package_endpoint["endpoint"] not in endpoint_dict
absent(key, endpoint_dict) == key \notin DOMAIN endpoint_dict

\* The for loop of Screen.main (lines 429-464), from the i-th configured
\* endpoint on.  records are the records in memory, saved the records of
\* the file.  endpoint_dict is what load_packages gives for the configured
\* endpoints (lines 432-437): every pass of the loop calls it for all of
\* them.  The split that main computes is not passed on: run_screen is
\* called with selected_record_ids.
RECURSIVE ScreenLoop(_, _, _, _, _, _)
ScreenLoop(rm, endpoint_dict, records, saved, i, done) ==
    LET screen_package_endpoints == rm.settings.screen_package_endpoints IN
    IF i > Len(screen_package_endpoints)
    THEN [exc |-> NoExc, saved |-> saved, events |-> done]
    ELSE
    LET screen_package_endpoint == screen_package_endpoints[i]
        loaded == Append(done, Event("load_packages", i))
        auto == auto_include(records, saved, rm.settings.criteria)
        ToScreen(r) == /\ r["colrev_status"] = "pdf_prepared"
                        /\ GetOr(r, "include_flag", "0") # "1"
        selected_record_ids == IdsOf(SelectSeq(auto.records, ToScreen))
    IN
    IF endpoint_dict.state = "raised"
    THEN [exc |-> endpoint_dict.exc, saved |-> saved, events |-> loaded]
    ELSE IF absent(screen_package_endpoint["endpoint"].v, endpoint_dict.value)
    THEN [exc |-> Exc("ServiceNotAvailableException", {"colrev sceen"}),
          saved |-> saved, events |-> loaded]
    ELSE ScreenLoop(rm, endpoint_dict, auto.records, auto.saved, i + 1,
             loaded \o auto.events
                \o << Event("run_screen",
                            [at |-> i,
                             endpoint |-> screen_package_endpoint["endpoint"].v,
                             split |-> selected_record_ids]) >>)

\* Screen.main: the records are loaded, then all are included when no
\* endpoint is configured, and the endpoints are run in order otherwise
screen_main(rm, pkgs, dir, saved) ==
    LET records == saved IN
    IF rm.settings.screen_package_endpoints = <<>>
    THEN [exc |-> NoExc] @@ screen_include_all(records)
    ELSE ScreenLoop(rm,
                    load_packages(pkgs, dir, "screen",
                                  rm.settings.screen_package_endpoints,
                                  FALSE, TRUE, rm.in_ci_environment),
                    records, saved, 1, <<>>)

\* a variant that rounds up
ceil(n, k) == (n + k - 1) \div k

\* math.floor(n / k), for n >= 0 and k >= 1
floor(n, k) == n \div k

\* Screen.get_data: the number of pdf_prepared records among the headers
\* and the generator of the pdf_prepared records
get_data(saved) ==
    [nr_tasks |-> Cardinality({i \in DOMAIN saved :
                                  saved[i]["colrev_status"] = "pdf_prepared"}),
     items |-> read_next_record(saved, "pdf_prepared")]

\* Screen.create_screen_split: each split takes the next nrecs items of
\* the generator; next() on an exhausted generator raises StopIteration.
\* A split is the list of IDs that its command joins with ",".
create_screen_split(saved, create_split) ==
    LET data == get_data(saved)
        nrecs == floor(data.nr_tasks, create_split)
    IN  IF nrecs * create_split > Len(data.items)
        THEN [exc |-> Exc("StopIteration", {}), value |-> <<>>]
        ELSE [exc |-> NoExc,
              value |-> [s \in 1..create_split |->
                           [command |-> "colrev screen --split",
                            added |-> IdsOf(SubSeq(data.items,
                                                   (s - 1) * nrecs + 1,
                                                   s * nrecs))]]]


(***************************************************************************)
(* Screen on a project                                                     *)
(***************************************************************************)
\* the IDs of the records of a file, by position
RecordIds == <<"r1", "r2", "r3", "r4", "r5">>

\* the records that the screen meets: not yet prepared, prepared, and
\* prepared with the include_flag set
ScreenRecords(id) ==
    { Record(id, "md_processed"), Record(id, "pdf_prepared"),
      Record(id, "pdf_prepared") @@ ("include_flag" :> "1") }

ScreenRecordLists ==
    UNION { { records \in [1..n -> UNION { ScreenRecords(RecordIds[i]) : i \in 1..n }] :
                \A i \in 1..n : records[i]["ID"] = RecordIds[i] } :
            n \in 0..MaxRecords }

\* the screen endpoints that a project configures: g screens in any
\* environment, n is not for CI, k needs docker, G is g in upper case and
\* x is not registered
ScreenEndpointLists ==
    UNION { [1..n -> { Selected(id_g), Selected(id_n), Selected(id_G) }] :
            n \in 0..MaxSelected }
    \cup { <<Selected(id_k)>>, <<Selected(id_g), Selected(id_k)>>,
           <<Selected(id_x)>>, <<Selected(id_g), Selected(id_x)>> }

\* a package manager constructed on a manifest, with no call made
LoaderReady(manifest, dir) ==
    /\ verbose = FALSE
    /\ init_exc = NoExc
    /\ packages = PackageManagerInit(manifest, FALSE).packages
    /\ package_endpoints_json_file = manifest
    /\ project_dir = dir
    /\ call = NoCall
    /\ caller_selected_packages = <<>>
    /\ result = NotCalled
    /\ settings_call = NoSettingsCall
    /\ settings_result = NoSettings

\* The criteria of the settings are read for the records with an
\* include_flag only: they vary where there is such a record.
InitScreen ==
    /\ LoaderReady(MainManifest, EmptyDir)
    /\ last = NoOperation
    /\ records_bib \in ScreenRecordLists
    /\ review_manager \in
          { ReviewManager([screen_package_endpoints |-> endpoints,
                           criteria |-> criteria], ci, FALSE) :
              endpoints \in ScreenEndpointLists,
              criteria \in { <<>> } \cup
                           { <<"c">> : i \in { j \in DOMAIN records_bib :
                                 "include_flag" \in DOMAIN records_bib[j] } },
              ci \in BOOLEAN }
    /\ file_system = {}
    /\ events = <<>>

\* screen_operation.main()
ScreenMain ==
    /\ LET done == screen_main(review_manager, packages, project_dir, records_bib) IN
       /\ records_bib' = done.saved
       /\ events' = done.events
       /\ last' = Operation("Screen.main", <<>>, done.exc, <<>>)
    /\ UNCHANGED <<loader_vars, review_manager, file_system>>

\* screen_operation.create_screen_split(create_split=...)
CreateScreenSplit ==
    /\ \E create_split \in 1..MaxSplit :
          LET splits == create_screen_split(records_bib, create_split) IN
          last' = Operation("create_screen_split",
                            [create_split |-> create_split],
                            splits.exc, splits.value)
    /\ events' = <<>>
    /\ UNCHANGED <<loader_vars, review_manager, records_bib, file_system>>

NextScreen ==
    \/ ScreenMain
    \/ CreateScreenSplit

SpecScreen == InitScreen /\ [][NextScreen]_vars

(***************************************************************************)
(* Properties of Screen                                                    *)
(***************************************************************************)
\* the events of a kind among the events of the last operation
EventsOf(name) == { i \in DOMAIN events : events[i].event = name }

\* the mapping that load_packages returns for the configured screen
\* endpoints does not have the i-th of them
AbsentFromMapping(i) ==
    LET screen_package_endpoints == review_manager.settings.screen_package_endpoints
        endpoint_dict == load_packages(packages, project_dir, "screen",
                             screen_package_endpoints, FALSE, TRUE,
                             review_manager.in_ci_environment)
    IN  /\ endpoint_dict.state = "returned"
        /\ screen_package_endpoints[i]["endpoint"].v \notin DOMAIN endpoint_dict.value

\* C24: when a configured screen endpoint is absent from the mapping that
\* load_packages returns, Screen.main raises ServiceNotAvailableException,
\* and run_screen is invoked neither for that endpoint nor for any
\* endpoint configured after it.
C24_AbsentEndpointStopsScreen ==
    last.op = "Screen.main" =>
        \A i \in DOMAIN review_manager.settings.screen_package_endpoints :
            AbsentFromMapping(i) =>
                /\ last.exc.type = "ServiceNotAvailableException"
                /\ \A j \in EventsOf("run_screen") : events[j].detail.at < i

\* C24, witness: in CI, g has screened and n, which is not for CI, has
\* ended the operation.
C24_Witness ==
    /\ last.op = "Screen.main"
    /\ review_manager.in_ci_environment
    /\ review_manager.settings.screen_package_endpoints
          = <<Selected(id_g), Selected(id_n)>>
    /\ AbsentFromMapping(2)
    /\ last.exc.type = "ServiceNotAvailableException"
    /\ \E j \in EventsOf("run_screen") : events[j].detail.at = 1

\* C25: Screen.main with an empty list of configured screen endpoints
\* loads no package, sets every record whose status is pdf_prepared to
\* rev_included, leaves the status of every other record unchanged, and
\* creates one commit.
C25_IncludeAll ==
    [][ (last'.op = "Screen.main"
           /\ review_manager.settings.screen_package_endpoints = <<>>)
        => /\ EventsOf("load_packages")' = {}
           /\ Cardinality(EventsOf("create_commit")') = 1
           /\ IdsOf(records_bib') = IdsOf(records_bib)
           /\ \A i \in DOMAIN records_bib :
                 records_bib'[i]["colrev_status"] =
                    IF records_bib[i]["colrev_status"] = "pdf_prepared"
                    THEN "rev_included"
                    ELSE records_bib[i]["colrev_status"] ]_vars

\* C25, witness: all were included: one record is now rev_included, an
\* md_processed record is there still, and one commit was made.
C25_Witness ==
    /\ last.op = "Screen.main"
    /\ last.exc.type = "none"
    /\ review_manager.settings.screen_package_endpoints = <<>>
    /\ Cardinality(EventsOf("create_commit")) = 1
    /\ \E i \in DOMAIN records_bib : records_bib[i]["colrev_status"] = "rev_included"
    /\ \E i \in DOMAIN records_bib : records_bib[i]["colrev_status"] = "md_processed"

\* the IDs of the pdf_prepared records
PreparedIds ==
    { records_bib[i]["ID"] : i \in { j \in DOMAIN records_bib :
                                       records_bib[j]["colrev_status"] = "pdf_prepared" } }

\* C29: create_screen_split(create_split=k) with k >= 1 and n records in
\* status pdf_prepared returns exactly k splits, each naming floor(n/k)
\* record IDs, all of them IDs of pdf_prepared records, and no record ID
\* appears in two splits or twice in one split.
C29_SplitsDisjoint ==
    last.op = "create_screen_split" =>
        LET k == last.args.create_split
            n == Cardinality(PreparedIds)
            screen_splits == last.value
        IN  /\ last.exc.type = "none"
            /\ Len(screen_splits) = k
            /\ \A s \in DOMAIN screen_splits :
                  /\ Len(screen_splits[s].added) = n \div k
                  /\ \A a \in DOMAIN screen_splits[s].added :
                        screen_splits[s].added[a] \in PreparedIds
            /\ \A s \in DOMAIN screen_splits : \A t \in DOMAIN screen_splits :
                  \A a \in DOMAIN screen_splits[s].added :
                  \A b \in DOMAIN screen_splits[t].added :
                      screen_splits[s].added[a] = screen_splits[t].added[b]
                         => (s = t /\ a = b)

\* C29, witness: three prepared records were split in two: each split
\* names one record and one record is left over.
C29_Witness ==
    /\ last.op = "create_screen_split"
    /\ last.args.create_split = 2
    /\ Cardinality(PreparedIds) = 3
    /\ Len(last.value) = 2
    /\ Len(last.value[1].added) = 1
    /\ last.value[1].added # last.value[2].added


(***************************************************************************)
(* Search: file names                                                      *)
(***************************************************************************)
\* the longest file_path_string asked for
MaxName == 3

\* the most SearchSources registered in the settings
MaxSources == 2

\* s.replace("+", "_").replace(" ", "_").replace(";", "_")
replace(s) == [i \in DOMAIN s |-> IF s[i] \in {"+", " ", ";"} THEN "_" ELSE s[i]]

\* s.endswith(suffix)
endswith(s, suffix) ==
    /\ Len(suffix) <= Len(s)
    /\ SubSeq(s, Len(s) - Len(suffix) + 1, Len(s)) = suffix

\* s.rstrip(chars): the trailing characters that occur in chars are
\* stripped, not the trailing string chars
RECURSIVE rstrip(_, _)
rstrip(s, chars) ==
    IF s = <<>> \/ (\A i \in DOMAIN chars : chars[i] # s[Len(s)]) THEN s
    ELSE rstrip(SubSeq(s, 1, Len(s) - 1), chars)

\* str(i), for i >= 0
RECURSIVE str(_)
str(i) ==
    LET digits == <<"0", "1", "2", "3", "4", "5", "6", "7", "8", "9">> IN
    IF i < 10 THEN <<digits[i + 1]>>
    ELSE str(i \div 10) \o <<digits[(i % 10) + 1]>>

\* s.split("/"), part being the part that is being read
RECURSIVE Split(_, _, _)
Split(s, part, parts) ==
    IF s = <<>> THEN Append(parts, part)
    ELSE IF Head(s) = "/" THEN Split(Tail(s), <<>>, Append(parts, part))
    ELSE Split(Tail(s), Append(part, Head(s)), parts)

\* pathlib.Path(s) for a relative s: the parts between the slashes, without
\* the empty parts and the "." parts.  Two paths are equal when their
\* parts are.
Path(s) ==
    LET IsPart(part) == part # <<>> /\ part # <<".">> IN
    SelectSeq(Split(s, <<>>, <<>>), IsPart)

\* "data/search/"
DataSearch == <<"d", "a", "t", "a", "/", "s", "e", "a", "r", "c", "h", "/">>

\* a variant that takes no file name for registered
registered_never(filename, existing_filenames) == FALSE

\* not all(x != filename for x in existing_filenames)
registered(filename, existing_filenames) ==
    \E i \in DOMAIN existing_filenames : existing_filenames[i] = filename

\* The while loop of get_unique_filename (lines 51-54), from i on.  The
\* loop has not ended when it has tried one name more than there are
\* registered file names.
RECURSIVE NextFree(_, _, _, _)
NextFree(file_path_string, suffix, existing_filenames, i) ==
    LET filename == Path(DataSearch \o file_path_string \o <<"_">> \o str(i)
                            \o suffix)
    IN  IF i > Len(existing_filenames) + 1
        THEN [returned |-> FALSE, filename |-> <<>>]
        ELSE IF ~registered(filename, existing_filenames)
        THEN [returned |-> TRUE, filename |-> filename]
        ELSE NextFree(file_path_string, suffix, existing_filenames, i + 1)

\* Search.get_unique_filename, sources being the sources of the reloaded
\* settings
get_unique_filename(sources, file_path_string, suffix) ==
    LET replaced == replace(file_path_string)
        stem == IF endswith(replaced, suffix) THEN rstrip(replaced, suffix)
                ELSE replaced
        filename == Path(DataSearch \o stem \o suffix)
        existing_filenames == [i \in DOMAIN sources |-> sources[i]["filename"].v]
    IN  IF ~registered(filename, existing_filenames)
        THEN [returned |-> TRUE, filename |-> filename]
        ELSE NextFree(stem, suffix, existing_filenames, 1)

\* a SearchSource of the settings as a dict (source.get_dict())
Source(id, filename) ==
    [SourceSettings(id) EXCEPT !["filename"] = Val("Path", Path(DataSearch \o filename))]

\* the characters of the names asked for
NameAlphabet == {"a", "b", ".", "+", "/"}

Names == UNION { [1..n -> NameAlphabet] : n \in 0..MaxName }

\* the suffixes asked for, file suffixes as ".bib" is: a dot and a letter
Suffixes == { <<".", "b">>, <<".", "a">> }

\* the file names that sources are registered with: the names that
\* get_unique_filename tries first for a, and the name it makes of nothing
RegisteredNames ==
    { <<"a", ".", "b">>, <<"a", "_", "1", ".", "b">>,
      <<"a", "_", "2", ".", "b">>, <<"a", "_", "3", ".", "b">>,
      <<".", "b">> }

\* the sources of the settings: no two with the same file
RegisteredSources ==
    { sources \in UNION { [1..n -> { Source(id_i, name) : name \in RegisteredNames }] :
                            n \in 0..MaxSources } :
        \A i \in DOMAIN sources : \A j \in DOMAIN sources :
            sources[i] = sources[j] => i = j }

\* The settings and the arguments of the call that is to be made
InitUniqueFilename ==
    /\ LoaderReady(MainManifest, EmptyDir)
    /\ last \in
          { Operation("call", [file_path_string |-> file_path_string,
                               suffix |-> suffix], NoExc, <<>>) :
              file_path_string \in Names, suffix \in Suffixes }
    /\ review_manager \in
          { ReviewManager([sources |-> sources], FALSE, FALSE) :
              sources \in RegisteredSources }
    /\ records_bib = <<>>
    /\ file_system = {}
    /\ events = <<>>

\* search_operation.get_unique_filename(file_path_string, suffix)
GetUniqueFilename ==
    /\ last.op = "call"
    /\ last' = Operation("get_unique_filename", last.args, NoExc,
                    get_unique_filename(review_manager.settings.sources,
                                        last.args.file_path_string,
                                        last.args.suffix))
    /\ UNCHANGED <<loader_vars, project_vars>>

NextUniqueFilename == GetUniqueFilename

SpecUniqueFilename == InitUniqueFilename /\ [][NextUniqueFilename]_vars

(***************************************************************************)
(* Search: main                                                            *)
(***************************************************************************)
\* An installation with search sources of every behaviour: i and g search
\* an API (ieee.py:38), the files directory is not CI-supported and has no
\* api_search_supported attribute (files_dir.py:48-56), y has no API
\* search, and k needs docker.
SearchManifest ==
    [MainManifest EXCEPT !.search_source =
        << Item(id_i, "i.source", "IEEEXploreSearchSource"),
           Item(id_g, "i.source", "IEEEXploreSearchSource"),
           Item(id_n, "n.source", "FilesSearchSource"),
           Item(id_y, "y.source", "DBSearchSource"),
           Item(id_k, "k.source", "DockerSearchSource") >>]

\* endpoint.api_search_supported, of an instance that has the attribute
api_search_supported(endpoint) == endpoint.cls # "DBSearchSource"

\* Path(f).name
PathName(path) == IF path = <<>> THEN <<>> ELSE path[Len(path)]

\* "all"
All == <<"a", "l", "l">>

\* Search.__get_search_sources, for a selection_str without a comma; the
\* empty selection_str stands for None as well.  The file names are kept
\* relative to the path of the project.
get_search_sources(sources, selection_str) ==
    LET Chosen(source) == PathName(source["filename"].v) = PathName(Path(selection_str))
        sources_selected == IF selection_str # <<>> /\ selection_str # All
                            THEN SelectSeq(sources, Chosen)
                            ELSE sources
    IN  IF Len(sources_selected) = 0
        THEN [exc |-> Exc("AssertionError", {}), sources |-> <<>>]
        ELSE [exc |-> NoExc, sources |-> sources_selected]

\* a variant that takes every endpoint to be in the mapping
not_in_never(key, endpoint_dict) == FALSE

\* source.endpoint.lower() not in endpoint_dict
not_in(key, endpoint_dict) == Lower(key) \notin DOMAIN endpoint_dict

\* The for loop of Search.main (lines 340-377), from the i-th selected
\* source on.  endpoint_dicts[i] is what load_packages gives for the i-th
\* source (lines 341-346).  run_search is the service's: ran[i] says
\* whether it wrote the file of the source, wrote nothing, or found the
\* service unavailable.
RECURSIVE SearchLoop(_, _, _, _, _, _, _, _)
SearchLoop(rm, endpoint_dicts, sources, ran, skip_commit, files, i, done) ==
    IF i > Len(sources)
    THEN [exc |-> NoExc, files |-> files, events |-> done]
    ELSE
    LET source == sources[i]
        key == source["endpoint"].v
        filename == source["filename"].v
        endpoint_dict == endpoint_dicts[i]
        loaded == Append(done, Event("load_packages", i))
        searched == Append(loaded, Event("run_search", [at |-> i, endpoint |-> key]))
        written == IF ran[i] = "written" THEN files \cup {filename} ELSE files
        added == searched \o
                 << Event("remove_forthcoming", i),
                    Event("format_records_file", i),
                    Event("add_record_changes", i),
                    Event("add_changes", filename) >>
    IN
    IF endpoint_dict.state = "raised"
    THEN [exc |-> endpoint_dict.exc, files |-> files, events |-> loaded]
    ELSE IF not_in(key, endpoint_dict.value)
    THEN SearchLoop(rm, endpoint_dicts, sources, ran, skip_commit, files, i + 1, loaded)
    ELSE IF Lower(key) \notin DOMAIN endpoint_dict.value
    THEN [exc |-> Exc("KeyError", {Lower(key)}), files |-> files, events |-> loaded]
    ELSE IF "api_search_supported" \notin endpoint_dict.value[Lower(key)].members
    THEN [exc |-> Exc("AttributeError", {"api_search_supported"}),
          files |-> files, events |-> loaded]
    ELSE IF ~api_search_supported(endpoint_dict.value[Lower(key)])
    THEN SearchLoop(rm, endpoint_dicts, sources, ran, skip_commit, files, i + 1, loaded)
    ELSE IF ran[i] = "unavailable" /\ ~rm.force_mode
    THEN [exc |-> Exc("ServiceNotAvailableException", {key}),
          files |-> files, events |-> searched]
    ELSE IF filename \notin written
    THEN SearchLoop(rm, endpoint_dicts, sources, ran, skip_commit, written, i + 1, searched)
    ELSE SearchLoop(rm, endpoint_dicts, sources, ran, skip_commit, written, i + 1,
             IF skip_commit THEN added
             ELSE Append(added, Event("create_commit",
                                      [at |-> i, msg |-> "Run search"])))

\* Search.main: the selected sources are searched in order
search_main(rm, pkgs, dir, selection_str, ran, skip_commit, files) ==
    LET selected == get_search_sources(rm.settings.sources, selection_str) IN
    IF selected.exc.type # "none"
    THEN [exc |-> selected.exc, files |-> files, events |-> <<>>,
          sources |-> <<>>]
    ELSE SearchLoop(rm,
                    [i \in DOMAIN selected.sources |->
                        load_packages(pkgs, dir, "search_source",
                                      <<selected.sources[i]>>, FALSE, TRUE,
                                      rm.in_ci_environment)],
                    selected.sources, ran, skip_commit, files, 1, <<>>)
         @@ [sources |-> selected.sources]

\* the file names of the sources, by position
SourceFiles ==
    << <<"a", ".", "b">>, <<"a", "_", "1", ".", "b">>,
       <<"a", "_", "2", ".", "b">>, <<"a", "_", "3", ".", "b">> >>

\* the endpoints of the sources: G is registered as g, x is not registered
SourceEndpoints == {id_G, id_n, id_y, id_k, id_x}

SourceLists ==
    UNION { { [p \in 1..n |-> Source(endpoints[p], SourceFiles[p])] :
                endpoints \in [1..n -> SourceEndpoints] } :
            n \in 0..MaxSources }

InitSearch ==
    /\ LoaderReady(SearchManifest, EmptyDir)
    /\ last = NoOperation
    /\ review_manager \in
          { ReviewManager([sources |-> sources], ci, force_mode) :
              sources \in SourceLists, ci \in BOOLEAN, force_mode \in BOOLEAN }
    /\ records_bib = <<>>
    /\ file_system \in { {}, { Path(DataSearch \o SourceFiles[1]) } }
    /\ events = <<>>

\* search_operation.main(selection_str=..., rerun=..., skip_commit=...), of
\* a colrev search run: the operation is made and main is called once
SearchMain ==
    /\ last = NoOperation
    /\ \E selection_str \in {<<>>, All, SourceFiles[1]},
          skip_commit \in BOOLEAN,
          ran \in [1..MaxSources -> {"written", "nothing", "unavailable"}] :
          LET done == search_main(review_manager, packages, project_dir,
                                  selection_str, ran, skip_commit, file_system)
          IN  /\ file_system' = done.files
              /\ events' = done.events
              /\ last' = Operation("Search.main",
                             [selection_str |-> selection_str,
                              skip_commit |-> skip_commit,
                              sources |-> done.sources],
                             done.exc, <<>>)
    /\ UNCHANGED <<loader_vars, review_manager, records_bib>>

NextSearch == SearchMain

SpecSearch == InitSearch /\ [][NextSearch]_vars

(***************************************************************************)
(* Properties of Search                                                    *)
(***************************************************************************)
\* the sources that the last Search.main went through
Selection == last.args.sources

\* the i-th selected source was processed and its endpoint was not in the
\* mapping that load_packages returned for it
Dropped(i) ==
    /\ \E e \in EventsOf("load_packages") : events[e].detail = i
    /\ LET got == load_packages(packages, project_dir, "search_source",
                                <<Selection[i]>>, FALSE, TRUE,
                                review_manager.in_ci_environment)
       IN  /\ got.state # "raised"
           /\ Lower(Selection[i]["endpoint"].v) \notin DOMAIN got.value

\* C26: In Search.main, for every selected source processed in order: if
\* the source's lowercased endpoint is absent from the mapping returned by
\* load_packages, run_search is not invoked for it and no commit is made
\* for it, and the sources after it are still processed: the next source
\* is loaded, or main has returned when there is none.
C26_DroppedSourceIsSkipped ==
    last.op = "Search.main" =>
        \A i \in DOMAIN Selection :
            Dropped(i) =>
                /\ \A e \in EventsOf("run_search") \cup EventsOf("create_commit") :
                      events[e].detail.at # i
                /\ IF i < Len(Selection)
                   THEN \E e \in EventsOf("load_packages") :
                           events[e].detail = i + 1
                   ELSE last.exc = NoExc

\* C26, witness: under CI the first source, of the files directory, was
\* dropped, and the second was searched and committed.
C26_Witness ==
    /\ last.op = "Search.main"
    /\ Len(Selection) = 2
    /\ Dropped(1)
    /\ \E e \in EventsOf("run_search") : events[e].detail.at = 2
    /\ \E e \in EventsOf("create_commit") : events[e].detail.at = 2

\* the file names of the registered sources
ExistingFilenames ==
    { review_manager.settings.sources[i]["filename"].v :
        i \in DOMAIN review_manager.settings.sources }

\* C28: Search.get_unique_filename terminates and returns a path under
\* data/search/ with the given suffix that is different from the filename
\* of every SearchSource currently registered in the settings, for any
\* requested name and any set of registered sources.
C28_UniqueFilename ==
    last.op = "get_unique_filename" =>
        LET filename == last.value.filename IN
        /\ last.value.returned
        /\ Len(filename) >= 3
        /\ filename[1] = <<"d", "a", "t", "a">>
        /\ filename[2] = <<"s", "e", "a", "r", "c", "h">>
        /\ endswith(filename[Len(filename)], last.args.suffix)
        /\ filename \notin ExistingFilenames

\* C28, witness: a.b, a_1.b are registered and "a.b" was asked for: the
\* name returned is a_2.b.
C28_Witness ==
    /\ last.op = "get_unique_filename"
    /\ last.args.file_path_string = <<"a", ".", "b">>
    /\ last.args.suffix = <<".", "b">>
    /\ Cardinality(ExistingFilenames) = 2
    /\ last.value.returned
    /\ last.value.filename = Path(DataSearch \o <<"a", "_", "2", ".", "b">>)

(***************************************************************************)
(* PDFGet                                                                  *)
(***************************************************************************)
\* d.update(key=value)
update(d, key, value) ==
    [k \in (DOMAIN d) \cup {key} |-> IF k = key THEN value ELSE d[k]]

\* str(PDF_DIRECTORY_RELATIVE / Path(f"{ID}.pdf"))
pdf_filepath(id) ==
    CASE id = "r1" -> "data/pdfs/r1.pdf"
      [] id = "r2" -> "data/pdfs/r2.pdf"
      [] id = "r3" -> "data/pdfs/r3.pdf"
      [] id = "r4" -> "data/pdfs/r4.pdf"
      [] OTHER -> "data/pdfs/r5.pdf"

\* PDFGet.link_pdf: the PDF in the PDF directory that has the ID of the
\* record becomes its file
link_pdf(record, files) ==
    IF pdf_filepath(record["ID"]) \in files
       /\ pdf_filepath(record["ID"]) # GetOr(record, "file", "NA")
    THEN update(record, "file", pdf_filepath(record["ID"]))
    ELSE record

\* The for loop of retrieve_pdf (lines 105-123), from the i-th configured
\* script on.  get_pdf is the endpoint's: found[i] says whether it puts a
\* file into the record.
RECURSIVE GetLoop(_, _, _, _, _)
GetLoop(scripts, found, record, i, done) ==
    IF i > Len(scripts) THEN [record |-> record, events |-> done]
    ELSE
    LET got == IF found[i] THEN update(record, "file", "retrieved.pdf") ELSE record
        called == Append(done, Event("get_pdf",
                                    [at |-> i,
                                     endpoint |-> scripts[i]["endpoint"].v,
                                     file |-> "file" \in DOMAIN got]))
    IN  IF "file" \in DOMAIN got
        THEN [record |-> update(got, "colrev_status", "pdf_imported"),
              events |-> called]
        ELSE GetLoop(scripts, found,
                     update(got, "colrev_status", "pdf_needs_manual_retrieval"),
                     i + 1, called)

\* PDFGet.retrieve_pdf; pdf_get_scripts has the endpoint of every
\* configured script
retrieve_pdf(rm, item, found, files) ==
    LET record_dict == item.record IN
    IF record_dict["colrev_status"] # "rev_prescreen_included"
    THEN [record |-> record_dict, events |-> <<>>]
    ELSE GetLoop(rm.settings.pdf_get.scripts, found,
                 link_pdf(record_dict, files), 1, <<>>)

\* the records that retrieve_pdf is given: of every status that comes
\* before and after the retrieval, without a file, with the file of the
\* PDF directory and with another file
PDFGetRecords ==
    { Record("r1", status) : status \in {"md_processed", "rev_prescreen_included",
                                         "pdf_needs_manual_retrieval", "pdf_imported"} }
    \cup { Record("r1", status) @@ ("file" :> file) :
             status \in {"rev_prescreen_included", "pdf_imported"},
             file \in {"data/pdfs/r1.pdf", "linked.pdf"} }

\* the scripts of settings.pdf_get
Scripts ==
    UNION { [1..n -> { Selected(id_g), Selected(id_n), Selected(id_s) }] :
            n \in 0..MaxSelected }

InitPDFGet ==
    /\ LoaderReady(MainManifest, EmptyDir)
    /\ last = NoOperation
    /\ review_manager \in
          { ReviewManager([pdf_get |-> [scripts |-> scripts]], FALSE, FALSE) :
              scripts \in Scripts }
    /\ records_bib \in { <<record>> : record \in PDFGetRecords }
    /\ file_system \in { {}, {"data/pdfs/r1.pdf"} }
    /\ events = <<>>

\* pdf_get_operation.retrieve_pdf(item), as main maps it over the items
RetrievePdf ==
    /\ \E i \in DOMAIN records_bib, found \in [1..MaxSelected -> BOOLEAN] :
          LET item == [record |-> records_bib[i]]
              retrieved == retrieve_pdf(review_manager, item, found, file_system)
          IN  /\ last' = Operation("retrieve_pdf", item, NoExc, retrieved.record)
              /\ events' = retrieved.events
    /\ UNCHANGED <<loader_vars, review_manager, records_bib, file_system>>

NextPDFGet == RetrievePdf

SpecPDFGet == InitPDFGet /\ [][NextPDFGet]_vars

\* the scripts that are configured
ConfiguredScripts == review_manager.settings.pdf_get.scripts

\* C27: PDFGet.retrieve_pdf returns a record whose status is not
\* rev_prescreen_included unchanged and calls no endpoint; for a
\* rev_prescreen_included record it calls the configured pdf-get endpoints
\* in configuration order, stops at the first endpoint after which the
\* record has a file, and ends with status pdf_imported if the record has
\* a file and pdf_needs_manual_retrieval if every configured endpoint was
\* tried without yielding a file.
C27_RetrievePdf ==
    last.op = "retrieve_pdf" =>
        LET given == last.args.record
            returned == last.value
        IN  IF given["colrev_status"] # "rev_prescreen_included"
            THEN returned = given /\ events = <<>>
            ELSE /\ Len(events) <= Len(ConfiguredScripts)
                 /\ \A e \in DOMAIN events :
                       /\ events[e].event = "get_pdf"
                       /\ events[e].detail.at = e
                       /\ events[e].detail.endpoint = ConfiguredScripts[e]["endpoint"].v
                       /\ events[e].detail.file <=> e = Len(events) /\ "file" \in DOMAIN returned
                 /\ "file" \notin DOMAIN returned => Len(events) = Len(ConfiguredScripts)
                 /\ "file" \in DOMAIN returned =>
                       returned["colrev_status"] = "pdf_imported"
                 /\ "file" \notin DOMAIN returned =>
                       returned["colrev_status"] = "pdf_needs_manual_retrieval"

(***************************************************************************)
(* Repare                                                                  *)
(***************************************************************************)
\* dataset.load_records_dict(): the records of data/records.bib, read anew
\* at every call
load_records_dict(saved) == saved

\* str(full_path) + ".pdf"
with_pdf(file) ==
    CASE file = "a.pdf" -> "a.pdf.pdf"
      [] file = "a  b.pdf" -> "a  b.pdf.pdf"
      [] file = "a b.pdf" -> "a b.pdf.pdf"
      [] OTHER -> "other.pdf.pdf"

\* file.replace("  ", " ")
single_blanks(file) ==
    CASE file = "a  b.pdf" -> "a b.pdf"
      [] file = "a  b.pdf.pdf" -> "a b.pdf.pdf"
      [] OTHER -> file

\* the keys that __fix_provenance passes over (lines 167-176)
NoProvenance ==
    {"colrev_status", "colrev_origin", "colrev_masterdata_provenance",
     "colrev_data_provenance", "colrev_pdfid", "colrev_id", "ID", "ENTRYTYPE",
     "screening_criteria"}

\* Repare.__fix_provenance for a record without identifying fields and
\* without provenance of a source feed: pdf_hash becomes colrev_pdf_id, and
\* every other field gets an entry in colrev_data_provenance.  The entries
\* are written as the set of their keys.
fix_provenance(record_dict) ==
    LET renamed == IF "pdf_hash" \in DOMAIN record_dict
                   THEN update(Without(record_dict, "pdf_hash"), "colrev_pdf_id",
                               record_dict["pdf_hash"])
                   ELSE record_dict
        kept == Without(Without(renamed, "pdf_prep_hints"), "grobid-version")
        masterdata == update(kept, "colrev_masterdata_provenance", {})
    IN  update(masterdata, "colrev_data_provenance",
               (DOMAIN masterdata \cup {"colrev_data_provenance"}) \ NoProvenance)

\* One pass of the loop of __fix_files (lines 43-115).  files are the
\* files there are, none of them a symbolic link, all in one directory;
\* retrieved is what the local index has for the record: "not_in_index",
\* "no_file" or "file".  import_file puts the retrieved file into the PDF
\* directory under the ID of the record and makes it the file of the
\* record.  full_path is not computed anew after the retrieval.
FixOne(record_dict, files, retrieved) ==
    IF "file" \notin DOMAIN record_dict \/ record_dict["file"] \in files
    THEN [record |-> record_dict, files |-> files]
    ELSE
    LET file == record_dict["file"]
        renamed == IF with_pdf(file) \in files
                   THEN (files \ {with_pdf(file)}) \cup {file}
                   ELSE files
        same == { pdf \in renamed : single_blanks(file) = single_blanks(pdf) }
        moved == (renamed \ same) \cup { single_blanks(pdf) : pdf \in same }
        found == IF same # {} THEN update(record_dict, "file", single_blanks(file))
                 ELSE record_dict
        full_path == found["file"]
        restore == full_path \notin moved /\ retrieved = "file"
        restored == IF restore
                    THEN update(found, "file", pdf_filepath(found["ID"]))
                    ELSE found
        imported == IF restore THEN moved \cup {pdf_filepath(found["ID"])}
                    ELSE moved
    IN  IF full_path \in imported
        THEN [record |-> restored, files |-> imported]
        ELSE [record |-> update(update(Without(restored, "file"),
                                       "colrev_status_backup",
                                       restored["colrev_status"]),
                                "colrev_status", "rev_prescreen_included"),
              files |-> imported]

\* the loop of __fix_files over the records, from the i-th on
RECURSIVE FixLoop(_, _, _, _)
FixLoop(records, files, retrieved, i) ==
    IF i > Len(records) THEN [records |-> records, files |-> files]
    ELSE LET one == FixOne(records[i], files, retrieved[i]) IN
         FixLoop([records EXCEPT ![i] = one.record], one.files, retrieved, i + 1)

\* Repare.__fix_files(records=records).  Line 42 binds the name records to
\* the dict that load_records_dict returns: the loop fixes the records of
\* that dict, and the dict that the caller passed is left as it was.
\* Nothing is returned; what is done to the files stays.
fix_files(records, saved, files, retrieved) ==
    LET loaded == load_records_dict(saved)
        fixed == FixLoop(loaded, files, retrieved, 1)
    IN  [records |-> records, files |-> fixed.files]

\* Repare.main for a records file that can be read: the records are
\* loaded, their provenance and their files are fixed, and the records
\* are saved
repare_main(saved, files, retrieved) ==
    LET loaded == load_records_dict(saved)
        records == [i \in DOMAIN loaded |-> fix_provenance(loaded[i])]
        fixed == fix_files(records, saved, files, retrieved)
    IN  [saved |-> fixed.records, files |-> fixed.files,
         events |-> << Event("save_records_dict", IdsOf(fixed.records)) >>]

\* the file of the i-th record of a project: none, the PDF of the record
\* in the PDF directory, or one of the PDFs that a user put somewhere
RepareRecords(i) ==
    LET status == IF i % 2 = 1 THEN "pdf_imported" ELSE "pdf_prepared" IN
    { Record(RecordIds[i], status) }
    \cup { Record(RecordIds[i], status) @@ ("file" :> file) :
             file \in {pdf_filepath(RecordIds[i]), "a.pdf", "a  b.pdf"} }

RepareRecordLists ==
    UNION { { records \in [1..n -> UNION { RepareRecords(i) : i \in 1..n }] :
                \A i \in 1..n : records[i] \in RepareRecords(i) } :
            n \in 1..MaxRecords }

\* the files of a project
RepareFiles ==
    { {}, {"a.pdf"}, {"a.pdf.pdf"}, {"a b.pdf"}, {"data/pdfs/r1.pdf"},
      {"a.pdf", "data/pdfs/r1.pdf", "data/pdfs/r2.pdf"} }

InitRepare ==
    /\ LoaderReady(MainManifest, EmptyDir)
    /\ last = NoOperation
    /\ review_manager = ReviewManager([sources |-> <<>>], FALSE, FALSE)
    /\ records_bib \in RepareRecordLists
    /\ file_system \in RepareFiles
    /\ events = <<>>

\* repare_operation.main()
RepareMain ==
    /\ \E retrieved \in [1..MaxRecords -> {"not_in_index", "no_file", "file"}] :
          LET done == repare_main(records_bib, file_system, retrieved) IN
          /\ records_bib' = done.saved
          /\ file_system' = done.files
          /\ events' = done.events
          /\ last' = Operation("Repare.main",
                               [records |-> records_bib, files |-> file_system],
                               NoExc, <<>>)
    /\ UNCHANGED <<loader_vars, review_manager>>

NextRepare == RepareMain

SpecRepare == InitRepare /\ [][NextRepare]_vars

\* the file of a record as it was loaded is not there after main, under
\* none of the names that __fix_files gives it
NotFoundOrRestored(before) ==
    /\ "file" \in DOMAIN before
    /\ before["file"] \notin file_system
    /\ single_blanks(before["file"]) \notin file_system
    /\ pdf_filepath(before["ID"]) \notin file_system

\* C30: After Repare.main completes, every record of the saved dataset
\* whose file field points to a file that could not be found or restored
\* has no file field, has its previous status kept in colrev_status_backup,
\* and has status rev_prescreen_included; records whose file exists keep
\* their file field and status.
C30_MissingFilesUnlinked ==
    last.op = "Repare.main" /\ last.exc = NoExc =>
        \A i \in DOMAIN records_bib :
            LET before == last.args.records[i]
                after == records_bib[i]
            IN  /\ NotFoundOrRestored(before) =>
                      /\ "file" \notin DOMAIN after
                      /\ GetOr(after, "colrev_status_backup", "NA") = before["colrev_status"]
                      /\ after["colrev_status"] = "rev_prescreen_included"
                /\ "file" \in DOMAIN before /\ before["file"] \in last.args.files =>
                      /\ GetOr(after, "file", "NA") = before["file"]
                      /\ after["colrev_status"] = before["colrev_status"]

====
